---- MODULE Spec2Model ----
(***************************************************************************)
(* Model of the merge engine of doc-merger-app (src/src/core/merger.py)    *)
(* and of the fragments of the content processor and TOC generator that    *)
(* the engine writes (src/src/core/processor.py).                          *)
(*                                                                         *)
(* One run of MergeEngine.merge is a sequential process whose position is  *)
(* pc; cancel(), pause() and resume() are calls of another thread (the GUI *)
(* thread of src/src/gui/main_window.py) that may arrive between any two   *)
(* steps of the run.  The output text is modelled as the sequence of the   *)
(* fragments that _write_output hands to f.write, one token per fragment.  *)
(* The progress callback is the caller's; it is modelled as recording the  *)
(* snapshot it is given and returning normally.                            *)
(***************************************************************************)
EXTENDS Integers, Sequences, FiniteSets, TLC

\* ------------------------------------------------------------------ bounds

\* Longest file list handed to merge().
MaxFiles == 2

\* The longest list of paths given to discover_files.
MaxPaths == 2

\* The longest list of files given to detect_duplicates.
MaxListed == 3

\* The most calls of get_preset in one session.
MaxPresetCalls == 2

\* The longest pattern list a caller builds.
MaxPatterns == 3

\* The most lines of a text given to a text helper.
MaxTextLines == 2

\* The most lines of a text given to extract_front_matter.
MaxFrontMatterLines == 4

\* The longest content given to normalize_whitespace, in characters.
MaxContentLen == 7

\* The longest list of files given to generate_preview.
MaxPreviewFiles == 12

\* The number of runs made on one engine.
MaxRuns == 2

\* The longest document given to process_document, in lines.
MaxDocLines == 4

\* The files that exist in the input tree (FileInfo.path.name).
FileIds == {"a.md", "b.md"}

\* FileInfo.size of each file.
FileSize(f) == IF f = "a.md" THEN 1 ELSE 2

\* All sequences over S of length at most n.
SeqUpTo(S, n) == UNION {[1..k -> S] : k \in 0..n}

\* ------------------------------------------------------------------- state

VARIABLES
    files,            \* merge() argument: the list of FileInfo (by name)
    dry_run,          \* merge() argument
    config,           \* MergeEngine.config (the options the engine reads)
    cancelled,        \* MergeEngine._cancelled
    paused,           \* MergeEngine._paused
    pc,               \* position of the run inside merge()
    index,            \* loop variable of `for index, file_info in enumerate(files, 1)`
    processed_docs,   \* local list of ProcessedDocument
    errors,           \* local list of error messages
    warnings,         \* local list of warnings
    bytes_processed,  \* local counter
    progress,         \* the snapshots handed to progress_callback, in order
    attempts,         \* history: the files handed to safe_read_file, in order, with the outcome
    outputFile,       \* the file at output_path
    backupFile,       \* the file at backup_path
    result,           \* the MergeResult returned by merge()
    cancelInRun,      \* history: cancel() was called while merge() was executing
    cancelAtPause,    \* history: index at which cancel() arrived during the pause loop
    call,             \* a call of a function outside a merge run: its name and arguments
    ret               \* what that call returned

vars == <<files, dry_run, config, cancelled, paused, pc, index, processed_docs,
          errors, warnings, bytes_processed, progress, attempts, outputFile,
          backupFile, result, cancelInRun, cancelAtPause, call, ret>>

\* The arguments of the run and the calls outside it: no step of a run changes them.
inputs == <<files, dry_run, config, call, ret>>

\* The variables of a merge run: no call outside a run changes them.
engine == <<files, dry_run, config, cancelled, paused, pc, index, processed_docs,
            errors, warnings, bytes_processed, progress, attempts, outputFile,
            backupFile, result, cancelInRun, cancelAtPause>>

\* --------------------------------------------------------- rendered output

\* One line of the table of contents: its kind, the index and source name of
\* the document it belongs to, its indentation (in units of two spaces), its
\* text and its form ("link", "numbered" or "plain").
TocLine(kind, idx, src, indent, text, form) ==
    [kind |-> kind, index |-> idx, source |-> src,
     indent |-> indent, text |-> text, form |-> form]

\* One fragment written to the output: its kind, and the index and source
\* name of the document it belongs to (0 and "" for fragments of no document).
Tok(kind, idx, src) == TocLine(kind, idx, src, 0, "", "")

\* A header line of a document: (level, text).
Header(level, text) == [level |-> level, text |-> text]

\* The header lines of the transformed content of each file.
FileHeaders(f) ==
    IF f = "a.md" THEN <<Header(1, "Introduction"), Header(2, "Overview")>>
    ELSE <<Header(2, "Section A"), Header(3, "Subsection")>>

\* helpers.extract_headers on a content whose header lines are hs.
ExtractHeaders(hs, max_depth) ==
    SelectSeq(hs, LAMBDA h : h.level <= max_depth)

\* ProcessedDocument as built by process_document for a file named f with
\* header lines hs, at position i, under configuration cfg.
ProcessedDocument(cfg, f, hs, i, total) ==
    [source_path |-> f, index |-> i, total_count |-> total, file_size |-> FileSize(f),
     headers |-> ExtractHeaders(hs, cfg.toc_depth)]

\* ContentProcessor.process_document for file f at position i of the run.
ProcessDocument(f, i, total) == ProcessedDocument(config, f, FileHeaders(f), i, total)

\* ContentProcessor.generate_metadata_comment followed by '\n'.
MetadataComment(cfg, doc) ==
    IF cfg.add_metadata THEN <<Tok("meta", doc.index, doc.source_path)>> ELSE <<>>

\* ContentProcessor.generate_semantic_markers(doc, "start") followed by '\n'.
StartMarker(cfg, doc) ==
    IF cfg.add_semantic_markers THEN <<Tok("start", doc.index, doc.source_path)>> ELSE <<>>

\* '\n' followed by ContentProcessor.generate_semantic_markers(doc, "end").
EndMarker(cfg, doc) ==
    IF cfg.add_semantic_markers THEN <<Tok("end", doc.index, doc.source_path)>> ELSE <<>>

\* ContentProcessor.generate_chunk_hint followed by '\n'.
ChunkHint(cfg, doc) ==
    IF cfg.add_chunk_hints THEN <<Tok("chunk", doc.index, doc.source_path)>> ELSE <<>>

\* ContentProcessor.generate_document_header followed by '\n\n'.
DocumentHeader(doc) ==
    <<Tok("header", doc.index, doc.source_path), Tok("blank", doc.index, doc.source_path)>>

\* ContentProcessor.generate_separator.
Separator == <<Tok("sep", 0, "")>>

\* WriteDocument with the separator written after every document, the last too.
WriteDocumentTrailingSeparator(cfg, documents, i) ==
    LET doc == documents[i] IN
        MetadataComment(cfg, doc) \o StartMarker(cfg, doc) \o ChunkHint(cfg, doc)
        \o DocumentHeader(doc)
        \o <<Tok("content", doc.index, doc.source_path)>>
        \o EndMarker(cfg, doc)
        \o Separator

\* The body of the `for i, doc in enumerate(documents)` loop of _write_output.
WriteDocument(cfg, documents, i) ==
    LET doc == documents[i] IN
        MetadataComment(cfg, doc) \o StartMarker(cfg, doc) \o ChunkHint(cfg, doc)
        \o DocumentHeader(doc)
        \o <<Tok("content", doc.index, doc.source_path)>>
        \o EndMarker(cfg, doc)
        \o (IF i < Len(documents) THEN Separator ELSE <<>>)

RECURSIVE WriteDocuments(_, _, _)
\* The documents loop of _write_output, from document i on.
WriteDocuments(cfg, documents, i) ==
    IF i > Len(documents) THEN <<>>
    ELSE WriteDocument(cfg, documents, i) \o WriteDocuments(cfg, documents, i + 1)

\* TOCGenerator.generate, lines 187-195: the entry of a document.
TOCDocumentEntry(cfg, doc) ==
    TocLine("toc_entry", doc.index, doc.source_path, 0, doc.source_path,
            IF cfg.toc_style = "links" THEN "link"
            ELSE IF cfg.toc_style = "numbered" THEN "numbered" ELSE "plain")

\* TOCGenerator.generate, lines 197-207: the entries of the headers of a document.
TOCHeaderEntries(cfg, doc) ==
    IF cfg.toc_depth > 1
    THEN LET hs == SelectSeq(doc.headers, LAMBDA h : h.level <= cfg.toc_depth)
         IN  [j \in 1..Len(hs) |->
                TocLine("toc_header", doc.index, doc.source_path, hs[j].level - 1,
                        hs[j].text,
                        IF cfg.toc_style = "links" THEN "link" ELSE "plain")]
    ELSE <<>>

RECURSIVE TOCLines(_, _, _)
\* TOCGenerator.generate, the `for doc in documents` loop from document k on.
TOCLines(cfg, documents, k) ==
    IF k > Len(documents) THEN <<>>
    ELSE <<TOCDocumentEntry(cfg, documents[k])>>
         \o TOCHeaderEntries(cfg, documents[k])
         \o TOCLines(cfg, documents, k + 1)

\* TOCGenerator.generate: title, the entries of each document, closing rule.
TOCGenerate(cfg, documents) ==
    IF ~cfg.generate_toc THEN <<>>
    ELSE <<Tok("toc_title", 0, "")>>
         \o TOCLines(cfg, documents, 1)
         \o <<Tok("toc_rule", 0, "")>>

\* MergeEngine._write_output: everything written to the opened file.
WriteOutput(cfg, documents) ==
    (IF cfg.generate_toc /\ cfg.toc_position = "top"
        THEN TOCGenerate(cfg, documents) ELSE <<>>)
    \o WriteDocuments(cfg, documents, 1)
    \o (IF cfg.generate_toc /\ cfg.toc_position = "bottom"
        THEN <<Tok("toc_gap", 0, "")>> \o TOCGenerate(cfg, documents) ELSE <<>>)

\* ------------------------------------------------------------ run records

RECURSIVE TotalBytes(_)
\* sum(f.size for f in files), line 124.
TotalBytes(fs) == IF fs = <<>> THEN 0 ELSE FileSize(Head(fs)) + TotalBytes(Tail(fs))

\* An entry of an error or warning list: the message and the file it names.
Msg(text, f) == <<text, f>>

\* MergeProgress as built by update_progress (elapsed time left out).
Snapshot(i, name) ==
    [current_file |-> name, current_index |-> i, total_files |-> Len(files),
     bytes_processed |-> bytes_processed,
     total_bytes |-> TotalBytes(files),
     errors |-> errors, warnings |-> warnings]

\* MergeResult (duration left out); output_path is "out" or "None".
MergeResult(success, path, merged, size, errs, warns) ==
    [success |-> success, output_path |-> path, files_merged |-> merged,
     total_size |-> size, errors |-> errs, warnings |-> warns]

NoResult == MergeResult(FALSE, "None", 0, 0, <<>>, <<>>)

Absent == [exists |-> FALSE, content |-> <<>>]
OldOutput == [exists |-> TRUE, content |-> <<Tok("old", 0, "")>>]

\* MergeConfig(): the defaults of the options that merge(), _write_output and
\* TOCGenerator.generate read.
DefaultConfig ==
    [create_backup |-> TRUE, generate_toc |-> TRUE, toc_position |-> "top",
     toc_depth |-> 2, toc_style |-> "links",
     add_metadata |-> TRUE, add_semantic_markers |-> TRUE, add_chunk_hints |-> FALSE]

\* PRESETS: the built-in presets, as changes of the defaults.
Presets ==
    [basic |-> [DefaultConfig EXCEPT !.generate_toc = FALSE, !.add_metadata = FALSE,
                                     !.add_semantic_markers = FALSE],
     ai_knowledge_base |-> [DefaultConfig EXCEPT !.add_chunk_hints = TRUE],
     documentation |-> [DefaultConfig EXCEPT !.toc_depth = 3, !.add_metadata = FALSE,
                                             !.add_semantic_markers = FALSE],
     archive |-> [DefaultConfig EXCEPT !.generate_toc = FALSE, !.add_metadata = FALSE,
                                       !.add_semantic_markers = FALSE]]

\* The configurations of a run: the defaults or a preset, with the backup
\* option and the TOC position as the caller sets them.
Configs ==
    {[c EXCEPT !.create_backup = b, !.toc_position = pos] :
        c \in {DefaultConfig} \cup {Presets[n] : n \in DOMAIN Presets},
        b \in BOOLEAN, pos \in {"top", "bottom"}}

\* Every setting of the options that _write_output and TOCGenerator.generate read.
WriteConfigs ==
    [create_backup : {TRUE}, generate_toc : BOOLEAN, toc_position : {"top", "bottom"},
     toc_depth : 1..3, toc_style : {"links", "plain", "numbered"},
     add_metadata : BOOLEAN, add_semantic_markers : BOOLEAN, add_chunk_hints : BOOLEAN]

\* No call outside a merge run is in flight.
NoCall == [fn |-> "none"]

\* ---------------------------------------------------------------- actions

\* MergeEngine.__init__ and the arguments of the merge() call about to run.
Init ==
    /\ files \in SeqUpTo(FileIds, MaxFiles)
    /\ dry_run \in BOOLEAN
    /\ config \in Configs
    /\ cancelled = FALSE
    /\ paused = FALSE
    /\ pc = "pending"
    /\ index = 0
    /\ processed_docs = <<>>
    /\ errors = <<>>
    /\ warnings = <<>>
    /\ bytes_processed = 0
    /\ progress = <<>>
    /\ attempts = <<>>
    /\ outputFile \in {Absent, OldOutput}
    /\ backupFile = Absent
    /\ result = NoResult
    /\ cancelInRun = FALSE
    /\ cancelAtPause = 0
    /\ call = NoCall
    /\ ret = NoCall

\* The run is executing merge(): its flags are cleared and it has not returned.
Executing == pc \notin {"pending", "done"}

\* MergeEngine.cancel, called from the controlling thread.
Cancel ==
    /\ cancelled' = TRUE
    /\ cancelInRun' = (cancelInRun \/ Executing)
    /\ cancelAtPause' = IF cancelAtPause = 0 /\ pc = "pause_sleep" /\ paused
                        THEN index ELSE cancelAtPause
    /\ UNCHANGED <<inputs, paused, pc, index, processed_docs, errors, warnings,
                   bytes_processed, progress, attempts, outputFile, backupFile, result>>

\* MergeEngine.pause.
Pause ==
    /\ paused' = TRUE
    /\ UNCHANGED <<inputs, cancelled, pc, index, processed_docs, errors, warnings,
                   bytes_processed, progress, attempts, outputFile, backupFile, result,
                   cancelInRun, cancelAtPause>>

\* MergeEngine.resume.
Resume ==
    /\ paused' = FALSE
    /\ UNCHANGED <<inputs, cancelled, pc, index, processed_docs, errors, warnings,
                   bytes_processed, progress, attempts, outputFile, backupFile, result,
                   cancelInRun, cancelAtPause>>

\* merge() with lines 117-118 left out: the flags are kept as the earlier
\* calls of cancel(), pause() and resume() left them.
MergeStartKeepsFlags ==
    /\ pc = "pending"
    /\ errors' = <<>>
    /\ warnings' = <<>>
    /\ bytes_processed' = 0
    /\ pc' = "backup"
    /\ UNCHANGED <<inputs, cancelled, paused, index, processed_docs, progress, attempts,
                   outputFile, backupFile, result, cancelInRun, cancelAtPause>>

\* merge(), lines 117-124: clear the flags, initialise the locals.
MergeStart ==
    /\ pc = "pending"
    /\ cancelled' = FALSE
    /\ paused' = FALSE
    /\ errors' = <<>>
    /\ warnings' = <<>>
    /\ bytes_processed' = 0
    /\ pc' = "backup"
    /\ UNCHANGED <<inputs, index, processed_docs, progress, attempts, outputFile,
                   backupFile, result, cancelInRun, cancelAtPause>>

\* Where the for loop goes when its next position is i.
LoopTo(i) == IF i <= Len(files) THEN "check_cancel" ELSE "write"

\* Backup without the `not dry_run` test of line 143.
BackupIgnoresDryRun ==
    /\ pc = "backup"
    /\ IF config.create_backup /\ outputFile.exists
       THEN \/ /\ backupFile' = outputFile
               /\ UNCHANGED warnings
            \/ /\ warnings' = Append(warnings, Msg("Could not create backup", ""))
               /\ UNCHANGED backupFile
       ELSE UNCHANGED <<backupFile, warnings>>
    /\ processed_docs' = <<>>
    /\ index' = 1
    /\ pc' = LoopTo(1)
    /\ UNCHANGED <<inputs, cancelled, paused, errors, bytes_processed, progress, attempts,
                   outputFile, result, cancelInRun, cancelAtPause>>

\* merge(), lines 142-154: the backup of an existing output, then the loop starts.
Backup ==
    /\ pc = "backup"
    /\ IF ~dry_run /\ config.create_backup /\ outputFile.exists
       THEN \/ /\ backupFile' = outputFile            \* shutil.copy2 succeeds
               /\ UNCHANGED warnings
            \/ /\ warnings' = Append(warnings, Msg("Could not create backup", ""))
               /\ UNCHANGED backupFile                \* IOError
       ELSE UNCHANGED <<backupFile, warnings>>
    /\ processed_docs' = <<>>
    /\ index' = 1
    /\ pc' = LoopTo(1)
    /\ UNCHANGED <<inputs, cancelled, paused, errors, bytes_processed, progress, attempts,
                   outputFile, result, cancelInRun, cancelAtPause>>

\* merge(), lines 158-167: the cancellation check at the top of an iteration.
CheckCancel ==
    /\ pc = "check_cancel"
    /\ IF cancelled
       THEN /\ result' = MergeResult(FALSE, "None", index - 1, bytes_processed,
                                     <<Msg("Merge cancelled by user", "")>>, warnings)
            /\ pc' = "done"
       ELSE /\ pc' = "pause_test"
            /\ UNCHANGED result
    /\ UNCHANGED <<inputs, cancelled, paused, index, processed_docs, errors, warnings,
                   bytes_processed, progress, attempts, outputFile, backupFile,
                   cancelInRun, cancelAtPause>>

\* PauseTest with the pause handled as `if self._paused: continue`: the file
\* at which the run is paused is passed over.
PauseTestSkipsFile ==
    /\ pc = "pause_test"
    /\ IF paused
       THEN /\ index' = index + 1
            /\ pc' = LoopTo(index + 1)
       ELSE /\ pc' = "progress"
            /\ UNCHANGED index
    /\ UNCHANGED <<inputs, cancelled, paused, processed_docs, errors, warnings,
                   bytes_processed, progress, attempts, outputFile, backupFile, result,
                   cancelInRun, cancelAtPause>>

\* merge(), line 170: the test of `while self._paused`.
PauseTest ==
    /\ pc = "pause_test"
    /\ pc' = IF paused THEN "pause_sleep" ELSE "progress"
    /\ UNCHANGED <<inputs, cancelled, paused, index, processed_docs, errors, warnings,
                   bytes_processed, progress, attempts, outputFile, backupFile, result,
                   cancelInRun, cancelAtPause>>

\* PauseSleep with a cancellation seen in the pause loop returned at once, as
\* the checkpoint of lines 158-167 returns it.
PauseSleepReturnsCancelled ==
    /\ pc = "pause_sleep"
    /\ IF cancelled
       THEN /\ result' = MergeResult(FALSE, "None", index - 1, bytes_processed,
                                     <<Msg("Merge cancelled by user", "")>>, warnings)
            /\ pc' = "done"
       ELSE /\ pc' = "pause_test"
            /\ UNCHANGED result
    /\ UNCHANGED <<inputs, cancelled, paused, index, processed_docs, errors, warnings,
                   bytes_processed, progress, attempts, outputFile, backupFile,
                   cancelInRun, cancelAtPause>>

\* PauseSleep without the `if self._cancelled: break` of lines 173-174.
PauseSleepIgnoresCancel ==
    /\ pc = "pause_sleep"
    /\ pc' = "pause_test"
    /\ UNCHANGED <<inputs, cancelled, paused, index, processed_docs, errors, warnings,
                   bytes_processed, progress, attempts, outputFile, backupFile, result,
                   cancelInRun, cancelAtPause>>

\* merge(), lines 171-174: the body of the pause loop.
PauseSleep ==
    /\ pc = "pause_sleep"
    /\ pc' = IF cancelled THEN "progress" ELSE "pause_test"
    /\ UNCHANGED <<inputs, cancelled, paused, index, processed_docs, errors, warnings,
                   bytes_processed, progress, attempts, outputFile, backupFile, result,
                   cancelInRun, cancelAtPause>>

\* merge(), line 176 with update_progress, lines 127-140.
UpdateProgress ==
    /\ pc = "progress"
    /\ progress' = Append(progress, Snapshot(index, files[index]))
    /\ pc' = "process"
    /\ UNCHANGED <<inputs, cancelled, paused, index, processed_docs, errors, warnings,
                   bytes_processed, attempts, outputFile, backupFile, result,
                   cancelInRun, cancelAtPause>>

\* ProcessOk with the new document inserted at the head of the list.
ProcessOkPrepends ==
    /\ pc = "process"
    /\ attempts' = Append(attempts, [file |-> files[index], ok |-> TRUE])
    /\ processed_docs' = <<ProcessDocument(files[index], index, Len(files))>>
                         \o processed_docs
    /\ bytes_processed' = bytes_processed + FileSize(files[index])
    /\ index' = index + 1
    /\ pc' = LoopTo(index + 1)
    /\ UNCHANGED <<inputs, cancelled, paused, errors, warnings, progress, outputFile,
                   backupFile, result, cancelInRun, cancelAtPause>>

\* merge(), lines 178-184: the file is read and processed.
ProcessOk ==
    /\ pc = "process"
    /\ attempts' = Append(attempts, [file |-> files[index], ok |-> TRUE])
    /\ processed_docs' = Append(processed_docs,
                                ProcessDocument(files[index], index, Len(files)))
    /\ bytes_processed' = bytes_processed + FileSize(files[index])
    /\ index' = index + 1
    /\ pc' = LoopTo(index + 1)
    /\ UNCHANGED <<inputs, cancelled, paused, errors, warnings, progress, outputFile,
                   backupFile, result, cancelInRun, cancelAtPause>>

\* ProcessFail with the exception ending the loop instead of being absorbed.
ProcessFailStopsRun ==
    /\ pc = "process"
    /\ attempts' = Append(attempts, [file |-> files[index], ok |-> FALSE])
    /\ errors' = Append(errors, Msg("Error processing", files[index]))
    /\ index' = index + 1
    /\ pc' = "write"
    /\ UNCHANGED <<inputs, cancelled, paused, processed_docs, warnings, bytes_processed,
                   progress, outputFile, backupFile, result, cancelInRun, cancelAtPause>>

\* ProcessFail with the snapshots holding the run's error list itself
\* (`errors=errors` at line 138) instead of a copy of it.
ProcessFailSharesErrorList ==
    /\ pc = "process"
    /\ attempts' = Append(attempts, [file |-> files[index], ok |-> FALSE])
    /\ errors' = Append(errors, Msg("Error processing", files[index]))
    /\ progress' = [i \in 1..Len(progress) |-> [progress[i] EXCEPT !.errors = errors']]
    /\ index' = index + 1
    /\ pc' = LoopTo(index + 1)
    /\ UNCHANGED <<inputs, cancelled, paused, processed_docs, warnings, bytes_processed,
                   outputFile, backupFile, result, cancelInRun, cancelAtPause>>

\* merge(), lines 178-189: reading or processing the file raises.
ProcessFail ==
    /\ pc = "process"
    /\ attempts' = Append(attempts, [file |-> files[index], ok |-> FALSE])
    /\ errors' = Append(errors, Msg("Error processing", files[index]))
    /\ index' = index + 1
    /\ pc' = LoopTo(index + 1)
    /\ UNCHANGED <<inputs, cancelled, paused, processed_docs, warnings, bytes_processed,
                   progress, outputFile, backupFile, result, cancelInRun, cancelAtPause>>

\* merge(), lines 192-193: the write phase succeeds (or is skipped in a dry run).
WritePhase ==
    /\ pc = "write"
    /\ outputFile' = IF dry_run THEN outputFile
                     ELSE [exists |-> TRUE, content |-> WriteOutput(config, processed_docs)]
    /\ pc' = "return"
    /\ UNCHANGED <<inputs, cancelled, paused, index, processed_docs, errors, warnings,
                   bytes_processed, progress, attempts, backupFile, result,
                   cancelInRun, cancelAtPause>>

\* merge(), lines 192-193: _write_output raises, before the file is opened (it
\* is left as it was) or after (it holds a proper prefix of the text); control
\* passes to the handler at line 207.
WriteFail ==
    /\ pc = "write"
    /\ ~dry_run
    /\ \/ UNCHANGED outputFile
       \/ \E k \in 0..(Len(WriteOutput(config, processed_docs)) - 1) :
            outputFile' = [exists |-> TRUE,
                           content |-> SubSeq(WriteOutput(config, processed_docs), 1, k)]
    /\ pc' = "except"
    /\ UNCHANGED <<inputs, cancelled, paused, index, processed_docs, errors, warnings,
                   bytes_processed, progress, attempts, backupFile, result,
                   cancelInRun, cancelAtPause>>

\* MergeFailed reporting the documents processed and the errors recorded so far
\* next to the failure.
MergeFailedKeepsCounts ==
    /\ pc = "except"
    /\ result' = MergeResult(FALSE, "None", Len(processed_docs), bytes_processed,
                             Append(errors, Msg("Merge failed", "")), warnings)
    /\ pc' = "done"
    /\ UNCHANGED <<inputs, cancelled, paused, index, processed_docs, errors, warnings,
                   bytes_processed, progress, attempts, outputFile, backupFile,
                   cancelInRun, cancelAtPause>>

\* merge(), lines 207-216: the handler of an exception of the write phase.
MergeFailed ==
    /\ pc = "except"
    /\ result' = MergeResult(FALSE, "None", 0, bytes_processed,
                             <<Msg("Merge failed", "")>>, warnings)
    /\ pc' = "done"
    /\ UNCHANGED <<inputs, cancelled, paused, index, processed_docs, errors, warnings,
                   bytes_processed, progress, attempts, outputFile, backupFile,
                   cancelInRun, cancelAtPause>>

\* merge(), lines 195-205: the result of a run that reached the end.
ReturnResult ==
    /\ pc = "return"
    /\ result' = MergeResult(errors = <<>>, IF dry_run THEN "None" ELSE "out",
                             Len(processed_docs), bytes_processed, errors, warnings)
    /\ pc' = "done"
    /\ UNCHANGED <<inputs, cancelled, paused, index, processed_docs, errors, warnings,
                   bytes_processed, progress, attempts, outputFile, backupFile,
                   cancelInRun, cancelAtPause>>

Next ==
    \/ Cancel
    \/ Pause
    \/ Resume
    \/ MergeStart
    \/ Backup
    \/ CheckCancel
    \/ PauseTest
    \/ PauseSleep
    \/ UpdateProgress
    \/ ProcessOk
    \/ ProcessFail
    \/ WritePhase
    \/ WriteFail
    \/ MergeFailed
    \/ ReturnResult

Spec == Init /\ [][Next]_vars

\* The steps of the thread that executes merge().
MergeStep ==
    \/ MergeStart
    \/ Backup
    \/ CheckCancel
    \/ PauseTest
    \/ PauseSleep
    \/ UpdateProgress
    \/ ProcessOk
    \/ ProcessFail
    \/ WritePhase
    \/ WriteFail
    \/ MergeFailed
    \/ ReturnResult

\* The thread that executes merge() keeps running: a step of merge() that can be
\* taken is not postponed for ever (each read, write and sleep ends). Nothing is
\* assumed of the thread that calls cancel(), pause() and resume().
FairSpec == Spec /\ WF_vars(MergeStep)

\* ------------------------------------------- calls outside a merge run

\* An engine that has been constructed and runs nothing.
EngineIdle ==
    /\ files = <<>>
    /\ dry_run = FALSE
    /\ config = DefaultConfig
    /\ cancelled = FALSE
    /\ paused = FALSE
    /\ pc = "pending"
    /\ index = 0
    /\ processed_docs = <<>>
    /\ errors = <<>>
    /\ warnings = <<>>
    /\ bytes_processed = 0
    /\ progress = <<>>
    /\ attempts = <<>>
    /\ outputFile = Absent
    /\ backupFile = Absent
    /\ result = NoResult
    /\ cancelInRun = FALSE
    /\ cancelAtPause = 0

\* The header lines a file may hold.
HeaderLists ==
    {<<>>,
     <<Header(1, "Introduction"), Header(2, "Overview")>>,
     <<Header(2, "Section A"), Header(3, "Subsection")>>}

\* A file of the list given to merge(): its name, its header lines and whether
\* reading and processing it succeeds.
SourceFiles == [file : FileIds, headers : HeaderLists, ok : BOOLEAN]

RECURSIVE DocumentsFrom(_, _, _)
\* The processed_docs that the loop of merge() (lines 156-189) builds from the
\* listed files, from position i on: failed files leave no document.
DocumentsFrom(cfg, sources, i) ==
    IF i > Len(sources) THEN <<>>
    ELSE (IF sources[i].ok
          THEN <<ProcessedDocument(cfg, sources[i].file, sources[i].headers,
                                   i, Len(sources))>>
          ELSE <<>>)
         \o DocumentsFrom(cfg, sources, i + 1)

\* A call _write_output(output_path, documents) under some configuration.
InitWrite ==
    /\ call \in {[fn |-> "_write_output", config |-> c,
                  documents |-> DocumentsFrom(c, ss, 1)] :
                    c \in WriteConfigs, ss \in SeqUpTo(SourceFiles, MaxFiles)}
    /\ ret = NoCall
    /\ EngineIdle

\* _write_output runs to its end: the TOC it had generated and the text written.
WriteOutputCall ==
    /\ call.fn = "_write_output"
    /\ ret.fn = "none"
    /\ ret' = [fn |-> "_write_output",
               toc |-> TOCGenerate(call.config, call.documents),
               output |-> WriteOutput(call.config, call.documents)]
    /\ UNCHANGED <<call, engine>>

NextWrite == WriteOutputCall

SpecWrite == InitWrite /\ [][NextWrite]_vars

\* ------------------------------------------------- strings and file names

\* File names, path strings and glob patterns are sequences of characters.
\* The characters in use, in increasing order of code point.
CodePoints ==
    <<"*", ".", "/", "0", "1", "2", "3", "4", "5", "6", "7", "8", "9", "?",
      "A", "D", "F", "M", "R", "T",
      "a", "c", "d", "e", "f", "g", "i", "k", "l", "m", "n", "o", "p", "r",
      "s", "t", "u", "w", "x">>

\* The rank of each character in the order of code points.
Rank ==
    [c \in {CodePoints[i] : i \in 1..Len(CodePoints)} |->
        CHOOSE i \in 1..Len(CodePoints) : CodePoints[i] = c]

\* ord(c), up to the gaps between the characters in use.
Ord(c) == Rank[c]

\* str.lower() on one character.
LowerChar(c) ==
    CASE c = "A" -> "a"
      [] c = "D" -> "d"
      [] c = "F" -> "f"
      [] c = "M" -> "m"
      [] c = "R" -> "r"
      [] c = "T" -> "t"
      [] OTHER -> c

\* str.lower().
Lower(s) == [i \in 1..Len(s) |-> LowerChar(s[i])]

\* str.isdigit() on one character.
IsDigit(c) == c \in {"0", "1", "2", "3", "4", "5", "6", "7", "8", "9"}

DigitValue(c) == Ord(c) - Ord("0")

RECURSIVE IntOf(_)
\* int(text) of a run of digits.
IntOf(ds) ==
    IF ds = <<>> THEN 0
    ELSE 10 * IntOf(SubSeq(ds, 1, Len(ds) - 1)) + DigitValue(ds[Len(ds)])

RECURSIVE StrLess(_, _)
\* s < t on strings: the first differing character decides, a proper prefix is
\* smaller.
StrLess(s, t) ==
    IF t = <<>> THEN FALSE
    ELSE IF s = <<>> THEN TRUE
    ELSE IF Head(s) # Head(t) THEN Ord(Head(s)) < Ord(Head(t))
    ELSE StrLess(Tail(s), Tail(t))

RECURSIVE Fnmatch(_, _)
\* fnmatch(name, pattern) for patterns of literal characters, `*` and `?`.
Fnmatch(name, pattern) ==
    IF pattern = <<>> THEN name = <<>>
    ELSE IF Head(pattern) = "*"
         THEN \/ Fnmatch(name, Tail(pattern))
              \/ name # <<>> /\ Fnmatch(Tail(name), pattern)
    ELSE IF name = <<>> THEN FALSE
    ELSE /\ Head(pattern) = "?" \/ Head(pattern) = Head(name)
         /\ Fnmatch(Tail(name), Tail(pattern))

\* matches_patterns: the lower-cased name matches one of the lower-cased
\* patterns.
MatchesPatterns(filename, patterns) ==
    \E k \in 1..Len(patterns) : Fnmatch(Lower(filename), Lower(patterns[k]))

RECURSIVE RunLength(_, _)
\* The length of the longest prefix of s made of digits (digit = TRUE) or of
\* characters that are not digits (digit = FALSE).
RunLength(s, digit) ==
    IF s = <<>> \/ IsDigit(Head(s)) # digit THEN 0
    ELSE 1 + RunLength(Tail(s), digit)

RECURSIVE NaturalParts(_, _)
\* The list natural_sort_key builds from re.split(r'(\d+)', s): lower-cased
\* text parts and digit runs turned into numbers alternate, a text part (empty
\* if need be) first and last.
NaturalParts(s, digit) ==
    LET n == RunLength(s, digit)
        part == SubSeq(s, 1, n)
        rest == SubSeq(s, n + 1, Len(s))
    IN  IF digit
        THEN <<[num |-> TRUE, n |-> IntOf(part), text |-> <<>>]>>
             \o NaturalParts(rest, FALSE)
        ELSE <<[num |-> FALSE, n |-> 0, text |-> Lower(part)]>>
             \o (IF rest = <<>> THEN <<>> ELSE NaturalParts(rest, TRUE))

\* natural_sort_key with its digit runs compared as text, as in a plain
\* lower-cased comparison.
NaturalSortKeyAsText(s) == <<[num |-> FALSE, n |-> 0, text |-> Lower(s)]>>

\* natural_sort_key.
NaturalSortKey(s) == NaturalParts(s, FALSE)

RECURSIVE KeyLess(_, _)
\* k1 < k2 on two lists built by natural_sort_key: the first differing part
\* decides (numbers against numbers, text against text), a proper prefix is
\* smaller.
KeyLess(k1, k2) ==
    IF k2 = <<>> THEN FALSE
    ELSE IF k1 = <<>> THEN TRUE
    ELSE IF Head(k1) # Head(k2)
         THEN IF Head(k1).num THEN Head(k1).n < Head(k2).n
              ELSE StrLess(Head(k1).text, Head(k2).text)
    ELSE KeyLess(Tail(k1), Tail(k2))

\* --------------------------------------------------------- the file tree

\* Names of the directories and files of the tree that is scanned.
NameDocs == <<"d", "o", "c", "s">>
NameSub == <<"s", "u", "b">>
NameDeep == <<"d", "e", "e", "p">>
NameGit == <<".", "g", "i", "t">>
NameFile10 == <<"f", "i", "l", "e", "1", "0", ".", "m", "d">>
NameFile2 == <<"f", "i", "l", "e", "2", ".", "m", "d">>
NameFile1 == <<"F", "i", "l", "e", "1", ".", "M", "D">>
NameNotes == <<"n", "o", "t", "e", "s", ".", "t", "x", "t">>
NameDraft == <<"d", "r", "a", "f", "t", ".", "m", "d">>
NameFile3 == <<"f", "i", "l", "e", "3", ".", "m", "d">>
NameFile4 == <<"f", "i", "l", "e", "4", ".", "m", "d">>
NameFile5 == <<"f", "i", "l", "e", "5", ".", "m", "d">>
NameGone == <<"g", "o", "n", "e", ".", "m", "d">>

\* A path is the sequence of its components.
Docs == <<NameDocs>>
Sub == <<NameDocs, NameSub>>
Deep == <<NameDocs, NameSub, NameDeep>>
Git == <<NameDocs, NameGit>>
File10 == <<NameDocs, NameFile10>>
File2 == <<NameDocs, NameFile2>>
File1 == <<NameDocs, NameFile1>>
Notes == <<NameDocs, NameNotes>>
Draft == <<NameDocs, NameDraft>>
File3 == <<NameDocs, NameSub, NameFile3>>
File4 == <<NameDocs, NameSub, NameDeep, NameFile4>>
File5 == <<NameDocs, NameGit, NameFile5>>
Gone == <<NameDocs, NameGone>>

Directories == {Docs, Sub, Deep, Git}
RegularFiles == {File10, File2, File1, Notes, Draft, File3, File4, File5}

\* Path.is_file() and Path.is_dir(); Gone is neither.
IsFile(path) == path \in RegularFiles
IsDir(path) == path \in Directories

\* Path.name.
PathName(path) == path[Len(path)]

RECURSIVE PathStr(_)
\* str(path): the components joined by "/".
PathStr(path) ==
    IF Len(path) = 1 THEN path[1]
    ELSE PathStr(SubSeq(path, 1, Len(path) - 1)) \o <<"/">> \o path[Len(path)]

\* The entries of a directory, in one order in which the system may list them.
Entries(directory) ==
    CASE directory = Docs -> <<File10, Sub, File2, Git, File1, Notes, Draft>>
      [] directory = Sub -> <<File3, Deep>>
      [] directory = Deep -> <<File4>>
      [] directory = Git -> <<File5>>
      [] OTHER -> <<>>

Reverse(s) == [i \in 1..Len(s) |-> s[Len(s) + 1 - i]]

\* Path.iterdir(): the order of the entries is the system's choice; env.reversed
\* picks one of two.
Iterdir(env, directory) ==
    IF env.reversed THEN Reverse(Entries(directory)) ELSE Entries(directory)

\* stat() of a file: st_size and st_mtime.
FileStat(path) ==
    CASE path = File10 -> [size |-> 3, modified |-> 1]
      [] path = File2 -> [size |-> 1, modified |-> 3]
      [] path = File1 -> [size |-> 2, modified |-> 2]
      [] path = Notes -> [size |-> 1, modified |-> 1]
      [] path = Draft -> [size |-> 2, modified |-> 3]
      [] path = File3 -> [size |-> 3, modified |-> 2]
      [] path = File4 -> [size |-> 1, modified |-> 1]
      [] OTHER -> [size |-> 2, modified |-> 2]

\* The bytes of a file, by name of content.
FileContent(path) ==
    CASE path \in {File10, File3} -> "alpha"
      [] path \in {File2, File4, File5} -> "beta"
      [] path = File1 -> "gamma"
      [] path = Notes -> "delta"
      [] OTHER -> "epsilon"

\* ------------------------------------------------------------ FileAnalyzer

\* FileInfo of a file whose first characters could be read; hash is empty until
\* detect_duplicates sets it.
FileInfo(path) ==
    [path |-> path, size |-> FileStat(path).size, modified |-> FileStat(path).modified,
     preview |-> "text", hash |-> ""]

\* FileAnalyzer._analyze_file: opening a file that cannot be read raises IOError
\* and the preview becomes the sentinel of line 131.
AnalyzeFile(env, path) ==
    [FileInfo(path) EXCEPT
        !.preview = IF path \in env.unreadable THEN "[Could not read file]" ELSE "text"]

\* FileAnalyzer._matches_filters.
MatchesFilters(cfg, filename) ==
    /\ MatchesPatterns(filename, cfg.include_patterns)
    /\ ~(cfg.exclude_patterns # <<>> /\ MatchesPatterns(filename, cfg.exclude_patterns))

\* Listing the directory raises PermissionError / another OSError.
Denied(env, directory) == env.fail = [dir |-> directory, kind |-> "denied"]
Broken(env, directory) == env.fail = [dir |-> directory, kind |-> "oserror"]

NoFiles == [files |-> <<>>, raised |-> FALSE]
Raised == [files |-> <<>>, raised |-> TRUE]

RECURSIVE ScanDirectory(_, _, _, _)
RECURSIVE ScanEntries(_, _, _, _, _)

\* _scan_directory with the depth test `current_depth >= max_depth`.
ScanDirectoryStopsOneLevelEarly(cfg, env, directory, current_depth) ==
    IF cfg.max_depth >= 0 /\ current_depth >= cfg.max_depth THEN NoFiles
    ELSE IF Denied(env, directory) THEN NoFiles
    ELSE IF Broken(env, directory) THEN Raised
    ELSE ScanEntries(cfg, env, Iterdir(env, directory), 1, current_depth)

\* FileAnalyzer._scan_directory: the files found, or the exception that leaves
\* it. A PermissionError is absorbed and the directory yields nothing.
ScanDirectory(cfg, env, directory, current_depth) ==
    IF cfg.max_depth >= 0 /\ current_depth > cfg.max_depth THEN NoFiles
    ELSE IF Denied(env, directory) THEN NoFiles
    ELSE IF Broken(env, directory) THEN Raised
    ELSE ScanEntries(cfg, env, Iterdir(env, directory), 1, current_depth)

\* The loop of _scan_directory over the listed entries, from entry k on.
ScanEntries(cfg, env, entries, k, current_depth) ==
    IF k > Len(entries) THEN NoFiles
    ELSE LET entry == entries[k]
             found ==
                 IF IsFile(entry) /\ MatchesFilters(cfg, PathName(entry))
                 THEN [files |-> <<AnalyzeFile(env, entry)>>, raised |-> FALSE]
                 ELSE IF IsDir(entry) /\ cfg.recursive /\ Head(PathName(entry)) # "."
                 THEN ScanDirectory(cfg, env, entry, current_depth + 1)
                 ELSE NoFiles
         IN  IF found.raised THEN Raised
             ELSE LET rest == ScanEntries(cfg, env, entries, k + 1, current_depth)
                  IN  [files |-> found.files \o rest.files, raised |-> rest.raised]

\* The key comparison of _sort_files: the key of x is smaller than that of y.
SortKeyLess(cfg, x, y) ==
    CASE cfg.sort_order = "alphabetical" ->
            StrLess(Lower(PathStr(x.path)), Lower(PathStr(y.path)))
      [] cfg.sort_order = "natural" ->
            KeyLess(NaturalSortKey(PathStr(x.path)), NaturalSortKey(PathStr(y.path)))
      [] cfg.sort_order = "date" -> x.modified < y.modified
      [] cfg.sort_order = "size" -> x.size < y.size
      [] OTHER -> FALSE

\* list.sort(key, reverse): x has to come before y.
SortsBefore(cfg, x, y) ==
    IF cfg.sort_ascending THEN SortKeyLess(cfg, x, y) ELSE SortKeyLess(cfg, y, x)

RECURSIVE InsertSorted(_, _, _)
\* x put into a sorted list behind the entries it does not have to precede
\* (list.sort is stable, with reverse too).
InsertSorted(cfg, sorted, x) ==
    IF sorted = <<>> THEN <<x>>
    ELSE IF SortsBefore(cfg, x, Head(sorted)) THEN <<x>> \o sorted
    ELSE <<Head(sorted)>> \o InsertSorted(cfg, Tail(sorted), x)

RECURSIVE SortedPrefix(_, _, _)
\* The first n entries of fs, sorted.
SortedPrefix(cfg, fs, n) ==
    IF n = 0 THEN <<>> ELSE InsertSorted(cfg, SortedPrefix(cfg, fs, n - 1), fs[n])

\* FileAnalyzer._sort_files.
SortFiles(cfg, fs) ==
    IF cfg.sort_order \in {"alphabetical", "natural", "date", "size"}
    THEN SortedPrefix(cfg, fs, Len(fs))
    ELSE fs

RECURSIVE DiscoverFrom(_, _, _, _)
\* The loop of discover_files over the given paths, from path k on.
DiscoverFrom(cfg, env, paths, k) ==
    IF k > Len(paths) THEN NoFiles
    ELSE LET path == paths[k]
             found ==
                 IF IsFile(path)
                 THEN IF MatchesFilters(cfg, PathName(path))
                      THEN [files |-> <<AnalyzeFile(env, path)>>, raised |-> FALSE]
                      ELSE NoFiles
                 ELSE IF IsDir(path) THEN ScanDirectory(cfg, env, path, 0)
                 ELSE NoFiles
         IN  IF found.raised THEN Raised
             ELSE LET rest == DiscoverFrom(cfg, env, paths, k + 1)
                  IN  [files |-> found.files \o rest.files, raised |-> rest.raised]

\* FileAnalyzer.discover_files: the files in the order of discovery, the list
\* returned, or the exception that leaves it.
DiscoverFiles(cfg, env, paths) ==
    LET found == DiscoverFrom(cfg, env, paths, 1)
    IN  IF found.raised
        THEN [raised |-> TRUE, discovered |-> <<>>, files |-> <<>>]
        ELSE [raised |-> FALSE, discovered |-> found.files,
              files |-> SortFiles(cfg, found.files)]

\* calculate_file_hash: the digest of the content (distinct contents are taken
\* to have distinct digests).
CalculateFileHash(path) ==
    CASE FileContent(path) = "alpha" -> "d1"
      [] FileContent(path) = "beta" -> "d2"
      [] FileContent(path) = "gamma" -> "d3"
      [] FileContent(path) = "delta" -> "d4"
      [] OTHER -> "d5"

\* The entries of fs whose hash is h, in list order, with their hash field set.
Bucket(fs, h) ==
    LET hashed == [i \in 1..Len(fs) |-> [fs[i] EXCEPT !.hash = CalculateFileHash(fs[i].path)]]
    IN  SelectSeq(hashed, LAMBDA f : f.hash = h)

\* detect_duplicates returning every hash bucket, those of one file too.
DetectDuplicatesKeepsSingles(cfg, env, fs) ==
    IF ~cfg.detect_duplicates THEN [raised |-> FALSE, groups |-> <<>>]
    ELSE IF \E i \in 1..Len(fs) : fs[i].path \in env.unreadable
    THEN [raised |-> TRUE, groups |-> <<>>]
    ELSE LET hashes == {CalculateFileHash(fs[i].path) : i \in 1..Len(fs)}
         IN  [raised |-> FALSE, groups |-> [h \in hashes |-> Bucket(fs, h)]]

\* FileAnalyzer.detect_duplicates: the hash buckets of more than one entry, by
\* hash, or the exception of calculate_file_hash on a file that cannot be read.
DetectDuplicates(cfg, env, fs) ==
    IF ~cfg.detect_duplicates THEN [raised |-> FALSE, groups |-> <<>>]
    ELSE IF \E i \in 1..Len(fs) : fs[i].path \in env.unreadable
    THEN [raised |-> TRUE, groups |-> <<>>]
    ELSE LET hashes == {CalculateFileHash(fs[i].path) : i \in 1..Len(fs)}
         IN  [raised |-> FALSE,
              groups |-> [h \in {g \in hashes : Len(Bucket(fs, g)) > 1} |-> Bucket(fs, h)]]

\* --------------------------------------------------- calls of FileAnalyzer

\* Glob patterns.
PatternMd == <<"*", ".", "m", "d">>
PatternMarkdown == <<"*", ".", "m", "a", "r", "k", "d", "o", "w", "n">>
PatternAll == <<"*">>
PatternDraft == <<"D", "R", "A", "F", "T", "*">>

\* MergeConfig(): the defaults of the options that FileAnalyzer reads.
DefaultAnalyzerConfig ==
    [detect_duplicates |-> TRUE,
     include_patterns |-> <<PatternMd, PatternMarkdown>>, exclude_patterns |-> <<>>,
     recursive |-> TRUE, max_depth |-> -1,
     sort_order |-> "alphabetical", sort_ascending |-> TRUE]

\* The configurations under which discover_files is called.
DiscoverConfigs ==
    [detect_duplicates : {TRUE},
     include_patterns : {<<PatternMd, PatternMarkdown>>, <<PatternAll>>},
     exclude_patterns : {<<>>, <<PatternDraft>>},
     recursive : BOOLEAN, max_depth : {-1, 0, 1},
     sort_order : {"alphabetical", "natural", "date", "size", "custom"},
     sort_ascending : BOOLEAN]

\* The paths a caller may name: directories, files, a path that does not exist.
Roots == {Docs, Sub, File2, Gone}

NoFailure == [dir |-> <<>>, kind |-> "none"]

\* What the file system does during a call: the directory whose listing fails
\* and how, the order of the listings, the files that cannot be opened.
Envs ==
    [fail : {NoFailure}, reversed : BOOLEAN, unreadable : {{}}]
    \cup
    [fail : {[dir |-> Sub, kind |-> "denied"], [dir |-> Sub, kind |-> "oserror"]},
     reversed : {FALSE}, unreadable : {{}}]
    \cup
    [fail : {NoFailure}, reversed : {FALSE}, unreadable : {{File1}}]

DuplicateEnvs == [fail : {NoFailure}, reversed : {FALSE}, unreadable : {{}, {File1}}]

\* The FileInfo lists given to detect_duplicates.
Listed == {FileInfo(p) : p \in RegularFiles}

\* A call of discover_files or of detect_duplicates.
InitAnalyzer ==
    /\ call \in [fn : {"discover_files"}, config : DiscoverConfigs, env : Envs,
                 paths : SeqUpTo(Roots, MaxPaths)]
                \cup
                [fn : {"detect_duplicates"},
                 config : {[DefaultAnalyzerConfig EXCEPT !.detect_duplicates = b] :
                             b \in BOOLEAN},
                 env : DuplicateEnvs,
                 files : SeqUpTo(Listed, MaxListed)]
    /\ ret = NoCall
    /\ EngineIdle

\* discover_files runs to its end.
DiscoverFilesCall ==
    /\ call.fn = "discover_files"
    /\ ret.fn = "none"
    /\ LET r == DiscoverFiles(call.config, call.env, call.paths)
       IN  ret' = [fn |-> "discover_files", raised |-> r.raised,
                   discovered |-> r.discovered, files |-> r.files]
    /\ UNCHANGED <<call, engine>>

\* detect_duplicates runs to its end.
DetectDuplicatesCall ==
    /\ call.fn = "detect_duplicates"
    /\ ret.fn = "none"
    /\ LET r == DetectDuplicates(call.config, call.env, call.files)
       IN  ret' = [fn |-> "detect_duplicates", raised |-> r.raised, groups |-> r.groups]
    /\ UNCHANGED <<call, engine>>

NextAnalyzer ==
    \/ DiscoverFilesCall
    \/ DetectDuplicatesCall

SpecAnalyzer == InitAnalyzer /\ [][NextAnalyzer]_vars

\* ------------------------------------------------------------- get_preset

\* The keys of PRESETS, in the order of the table.
PresetNames == <<"basic", "ai_knowledge_base", "documentation", "archive">>

\* Names a caller may pass to get_preset.
RequestedNames ==
    {"basic", "ai_knowledge_base", "documentation", "archive", "Basic", "default"}

IsPresetName(name) == \E i \in 1..Len(PresetNames) : PresetNames[i] = name

\* The position of a built-in name in the table: the reference of its
\* MergeConfig object.
PresetRef(name) == CHOOSE i \in 1..Len(PresetNames) : PresetNames[i] = name

\* The objects that exist once config.py is imported: one MergeConfig per
\* preset, each with its own include and exclude list (default_factory). configs
\* and lists are indexed by object reference; a MergeConfig holds its scalar
\* options and the references of its two lists.
ImportedHeap ==
    [configs |-> [i \in 1..Len(PresetNames) |->
                    [options |-> Presets[PresetNames[i]],
                     include_patterns |-> 2 * i - 1, exclude_patterns |-> 2 * i]],
     lists |-> [j \in 1..(2 * Len(PresetNames)) |->
                    IF j % 2 = 1 THEN <<PatternMd, PatternMarkdown>> ELSE <<>>]]

\* The value of the MergeConfig object at reference r: its options and the
\* contents of its lists.
ConfigValue(heap, r) ==
    [options |-> heap.configs[r].options,
     include_patterns |-> heap.lists[heap.configs[r].include_patterns],
     exclude_patterns |-> heap.lists[heap.configs[r].exclude_patterns]]

\* to_dict as a dict of the object's own attribute values: the lists of the
\* dict are the lists of the object.
ToDictSharesLists(heap, r) ==
    [heap |-> heap,
     dict |-> heap.configs[r]]

\* MergeConfig.to_dict: dataclasses.asdict copies every list into a new one.
ToDict(heap, r) ==
    LET n == Len(heap.lists)
        copied == Append(Append(heap.lists, heap.lists[heap.configs[r].include_patterns]),
                         heap.lists[heap.configs[r].exclude_patterns])
    IN  [heap |-> [heap EXCEPT !.lists = copied],
         dict |-> [options |-> heap.configs[r].options,
                   include_patterns |-> n + 1, exclude_patterns |-> n + 2]]

\* MergeConfig.from_dict: a new MergeConfig object holding the values of the
\* dict.
FromDict(heap, dict) ==
    [heap |-> [heap EXCEPT !.configs = Append(heap.configs, dict)],
     ref |-> Len(heap.configs) + 1]

\* get_preset: ValueError for a name that is no key of PRESETS, otherwise
\* from_dict(PRESETS[name].to_dict()).
GetPreset(heap, name) ==
    IF ~IsPresetName(name) THEN [heap |-> heap, raised |-> TRUE, ref |-> 0]
    ELSE LET d == ToDict(heap, PresetRef(name))
             c == FromDict(d.heap, d.dict)
         IN  [heap |-> c.heap, raised |-> FALSE, ref |-> c.ref]

\* config.py has been imported and get_preset not yet called. ret holds the
\* objects and, for every call made, the name, the outcome and the value
\* returned as it was on return.
InitPreset ==
    /\ call = [fn |-> "get_preset"]
    /\ ret = [fn |-> "get_preset", heap |-> ImportedHeap, results |-> <<>>]
    /\ EngineIdle

\* A call get_preset(name).
GetPresetCall ==
    /\ call.fn = "get_preset"
    /\ Len(ret.results) < MaxPresetCalls
    /\ \E name \in RequestedNames :
         LET r == GetPreset(ret.heap, name)
         IN  ret' = [ret EXCEPT
                       !.heap = r.heap,
                       !.results = Append(@, [name |-> name, raised |-> r.raised,
                                              ref |-> r.ref,
                                              value |-> IF r.raised THEN <<>>
                                                        ELSE ConfigValue(r.heap, r.ref)])]
    /\ UNCHANGED <<call, engine>>

\* The caller assigns to an option of a configuration it was given.
SetOption ==
    /\ call.fn = "get_preset"
    /\ \E k \in 1..Len(ret.results) :
         /\ ~ret.results[k].raised
         /\ LET r == ret.results[k].ref
            IN  ret' = [ret EXCEPT !.heap.configs[r].options.generate_toc = ~@]
    /\ UNCHANGED <<call, engine>>

\* The caller appends a pattern to a list of a configuration it was given.
AppendPattern ==
    /\ call.fn = "get_preset"
    /\ \E k \in 1..Len(ret.results) :
         /\ ~ret.results[k].raised
         /\ \E l \in {ret.heap.configs[ret.results[k].ref].include_patterns,
                      ret.heap.configs[ret.results[k].ref].exclude_patterns} :
              /\ Len(ret.heap.lists[l]) < MaxPatterns
              /\ ret' = [ret EXCEPT !.heap.lists[l] = Append(@, PatternDraft)]
    /\ UNCHANGED <<call, engine>>

NextPreset ==
    \/ GetPresetCall
    \/ SetOption
    \/ AppendPattern

SpecPreset == InitPreset /\ [][NextPreset]_vars

\* ------------------------------------------------------------ text helpers

\* A text is a sequence of characters; "LF" and "CR" stand for the line feed
\* and the carriage return.
Spaces == {" ", "LF", "CR"}

\* n times the character c.
Repeat(c, n) == [i \in 1..n |-> c]

RECURSIVE LineEnd(_, _)
\* The position of the first line feed of s at or after position i, Len(s) + 1
\* if there is none.
LineEnd(s, i) ==
    IF i > Len(s) \/ s[i] = "LF" THEN i ELSE LineEnd(s, i + 1)

RECURSIVE SplitLines(_)
\* str.split('\n').
SplitLines(s) ==
    LET e == LineEnd(s, 1)
    IN  IF e > Len(s) THEN <<s>>
        ELSE <<SubSeq(s, 1, e - 1)>> \o SplitLines(SubSeq(s, e + 1, Len(s)))

RECURSIVE JoinLines(_)
\* '\n'.join(lines).
JoinLines(lines) ==
    IF lines = <<>> THEN <<>>
    ELSE IF Len(lines) = 1 THEN lines[1]
    ELSE lines[1] \o <<"LF">> \o JoinLines(Tail(lines))

RECURSIVE LStrip(_, _)
\* str.lstrip(chars).
LStrip(s, chars) ==
    IF s # <<>> /\ Head(s) \in chars THEN LStrip(Tail(s), chars) ELSE s

RECURSIVE RStrip(_, _)
\* str.rstrip(chars).
RStrip(s, chars) ==
    IF s # <<>> /\ s[Len(s)] \in chars THEN RStrip(SubSeq(s, 1, Len(s) - 1), chars) ELSE s

\* str.strip().
Strip(s) == LStrip(RStrip(s, Spaces), Spaces)

RECURSIVE RunOf(_, _, _)
\* The length of the longest run of characters of the set chars that starts at
\* position i of s.
RunOf(s, i, chars) ==
    IF i > Len(s) \/ s[i] \notin chars THEN 0 ELSE 1 + RunOf(s, i + 1, chars)

\* -------------------------------------------------- adjust_header_levels

\* adjust_header, line 102: max(1, min(6, current_level + offset)).
NewLevel(current_level, offset) ==
    LET capped == IF current_level + offset < 6 THEN current_level + offset ELSE 6
    IN  IF capped > 1 THEN capped ELSE 1

RECURSIVE SubHeaders(_, _, _)
\* re.sub(r'^(#{1,6})(\s+.*)$', adjust_header, content, flags=re.MULTILINE) from
\* position i on: at the start of a line, 1 to 6 hash signs followed by white
\* space match together with the white space that follows (line feeds too) and
\* the rest of the line reached; the hash signs are replaced and the scan goes
\* on behind the match.
SubHeaders(s, i, offset) ==
    IF i > Len(s) THEN <<>>
    ELSE LET hashes == RunOf(s, i, {"#"})
             spaces == RunOf(s, i + hashes, Spaces)
             end == LineEnd(s, i + hashes + spaces)
         IN  IF /\ (i = 1 \/ s[i - 1] = "LF")
                /\ hashes \in 1..6
                /\ spaces >= 1
             THEN Repeat("#", NewLevel(hashes, offset))
                  \o SubSeq(s, i + hashes, end - 1)
                  \o SubHeaders(s, end, offset)
             ELSE <<s[i]>> \o SubHeaders(s, i + 1, offset)

\* adjust_header_levels.
AdjustHeaderLevels(content, offset) ==
    IF offset = 0 THEN content ELSE SubHeaders(content, 1, offset)

\* Lines a markdown text may hold: headers of the levels 1 to 6, a line of
\* seven hash signs, plain and empty lines, a bare hash sign, a hash sign with
\* no space behind it.
HeaderSampleLines ==
    {Repeat("#", n) \o <<" ", "a">> : n \in 0..7}
        \cup {<<>>, <<"a">>, <<"#">>, <<"#", "a">>}

\* The offsets a caller passes.
Offsets == -5..5

\* A call adjust_header_levels(content, offset).
InitHeaders ==
    /\ call \in [fn : {"adjust_header_levels"},
                 content : {JoinLines(ls) : ls \in SeqUpTo(HeaderSampleLines, MaxTextLines)},
                 offset : Offsets]
    /\ ret = NoCall
    /\ EngineIdle

AdjustHeaderLevelsCall ==
    /\ call.fn = "adjust_header_levels"
    /\ ret.fn = "none"
    /\ ret' = [fn |-> "adjust_header_levels",
               content |-> AdjustHeaderLevels(call.content, call.offset)]
    /\ UNCHANGED <<call, engine>>

NextHeaders == AdjustHeaderLevelsCall

SpecHeaders == InitHeaders /\ [][NextHeaders]_vars

\* --------------------------------------------------- extract_front_matter

Dashes == <<"-", "-", "-">>

\* content.startswith(prefix).
StartsWith(s, prefix) == Len(s) >= Len(prefix) /\ SubSeq(s, 1, Len(prefix)) = prefix

\* The value None, and a string, as the first component of the result.
None == [some |-> FALSE, text |-> <<>>]
Some(text) == [some |-> TRUE, text |-> text]

RECURSIVE ClosingIndex(_, _)
\* The loop of lines 72-75: the first position from i on of a line that is
\* '---' once stripped, 0 if there is none.
ClosingIndex(lines, i) ==
    IF i > Len(lines) THEN 0
    ELSE IF Strip(lines[i]) = Dashes THEN i
    ELSE ClosingIndex(lines, i + 1)

\* extract_front_matter.
ExtractFrontMatter(content) ==
    IF ~StartsWith(content, Dashes) THEN [matter |-> None, remaining |-> content]
    ELSE LET lines == SplitLines(content)
             end_index == ClosingIndex(lines, 2)
         IN  IF end_index = 0 THEN [matter |-> None, remaining |-> content]
             ELSE [matter |-> Some(JoinLines(SubSeq(lines, 2, end_index - 1))),
                   remaining |-> LStrip(JoinLines(SubSeq(lines, end_index + 1, Len(lines))),
                                        {"LF"})]

\* Lines of a text with or without front matter: delimiters, delimiters with a
\* space before or behind, runs of two and four dashes, text, the empty line.
FrontMatterSampleLines ==
    {Dashes, Dashes \o <<" ">>, <<" ">> \o Dashes, Dashes \o <<"-">>, <<"-", "-">>,
     <<"a">>, <<>>}

\* A call extract_front_matter(content).
InitFrontMatter ==
    /\ call \in [fn : {"extract_front_matter"},
                 content : {JoinLines(ls) :
                              ls \in SeqUpTo(FrontMatterSampleLines, MaxFrontMatterLines)}]
    /\ ret = NoCall
    /\ EngineIdle

ExtractFrontMatterCall ==
    /\ call.fn = "extract_front_matter"
    /\ ret.fn = "none"
    /\ LET r == ExtractFrontMatter(call.content)
       IN  ret' = [fn |-> "extract_front_matter", matter |-> r.matter,
                   remaining |-> r.remaining]
    /\ UNCHANGED <<call, engine>>

NextFrontMatter == ExtractFrontMatterCall

SpecFrontMatter == InitFrontMatter /\ [][NextFrontMatter]_vars

\* ---------------------------------------------------- normalize_whitespace

RECURSIVE CollapseRuns(_, _)
\* re.sub(r'\n{k,}', '\n' * (k - 1), content), lines 130-133: every maximal run
\* of k or more line feeds becomes k - 1 line feeds; shorter runs and every
\* other character are kept.
CollapseRuns(s, k) ==
    IF s = <<>> THEN <<>>
    ELSE IF Head(s) = "LF"
         THEN LET r == RunOf(s, 1, {"LF"})
              IN  Repeat("LF", IF r >= k THEN k - 1 ELSE r)
                      \o CollapseRuns(SubSeq(s, r + 1, Len(s)), k)
         ELSE <<Head(s)>> \o CollapseRuns(Tail(s), k)

\* The function without its strip(): the runs are collapsed and a line feed is
\* appended to whatever the text ends with.
NormalizeWhitespaceKeepsEnds(content, max_consecutive) ==
    CollapseRuns(content, max_consecutive + 2) \o <<"LF">>

\* normalize_whitespace(content, max_consecutive).
NormalizeWhitespace(content, max_consecutive) ==
    Strip(CollapseRuns(content, max_consecutive + 2)) \o <<"LF">>

\* The characters the contents are written with: a letter, a blank, a line feed
\* and a carriage return.
WhitespaceChars == {"a", " ", "LF", "CR"}

\* The values of max_consecutive_blanks that are tried (the default is 2).
MaxConsecutive == 1..2

InitWhitespace ==
    /\ call \in [fn : {"normalize_whitespace"},
                 content : SeqUpTo(WhitespaceChars, MaxContentLen),
                 max_consecutive : MaxConsecutive]
    /\ ret = NoCall
    /\ EngineIdle

NormalizeWhitespaceCall ==
    /\ call.fn = "normalize_whitespace"
    /\ ret.fn = "none"
    /\ ret' = [fn |-> "normalize_whitespace",
               content |-> NormalizeWhitespace(call.content, call.max_consecutive)]
    /\ UNCHANGED <<call, engine>>

NextWhitespace == NormalizeWhitespaceCall

SpecWhitespace == InitWhitespace /\ [][NextWhitespace]_vars

\* -------------------------------------------------------- generate_preview

\* An engine that runs nothing, with its flags as earlier calls of cancel(),
\* pause() and resume() left them.
EngineAtRest(c, p) ==
    /\ files = <<>>
    /\ dry_run = FALSE
    /\ config = DefaultConfig
    /\ cancelled = c
    /\ paused = p
    /\ pc = "pending"
    /\ index = 0
    /\ processed_docs = <<>>
    /\ errors = <<>>
    /\ warnings = <<>>
    /\ bytes_processed = 0
    /\ progress = <<>>
    /\ attempts = <<>>
    /\ outputFile = Absent
    /\ backupFile = Absent
    /\ result = NoResult
    /\ cancelInRun = FALSE
    /\ cancelAtPause = 0

\* A string of the list `lines`, as the lines it renders to: the pieces between
\* its line feeds.  A string without a line feed is one line.
OneLine(text) == <<text>>

\* The lines that doc.processed_content.split('\n') gives for a file whose
\* processed content has n pieces.
ContentLines(n) == [i \in 1..n |-> OneLine("content")]

\* ContentProcessor.generate_document_header(doc): the header, then one more
\* line for the path and one for the index when configured, in one string.
PreviewHeader(cfg, i) ==
    <<"header">>
        \o (IF cfg.include_file_path THEN <<"source">> ELSE <<>>)
        \o (IF cfg.include_doc_index THEN <<"index">> ELSE <<>>)

\* ContentProcessor.generate_separator(): separator_blank_lines line feeds, the
\* separator, and the line feeds again, in one string.
PreviewSeparator(cfg) ==
    Repeat("", cfg.separator_blank_lines) \o <<"---">>
        \o Repeat("", cfg.separator_blank_lines)

\* Lines 304-313: the TOC preview.
PreviewToc(cfg, fs) ==
    IF ~cfg.generate_toc THEN <<>>
    ELSE <<OneLine("# Table of Contents"), OneLine("")>>
         \o [i \in 1..(IF Len(fs) < 10 THEN Len(fs) ELSE 10) |-> OneLine("toc entry")]
         \o (IF Len(fs) > 10 THEN <<OneLine("and more")>> ELSE <<>>)
         \o <<OneLine(""), OneLine("---"), OneLine("")>>

\* Lines 315-335: what the file at position i of preview_files appends.
PreviewFile(cfg, fs, preview_files, i) ==
    IF ~fs[i].ok THEN <<OneLine("error previewing")>>
    ELSE <<PreviewHeader(cfg, i), OneLine("")>>
         \o ContentLines(IF fs[i].pieces < 20 THEN fs[i].pieces ELSE 20)
         \o (IF Len(fs) > Len(preview_files) \/ i < Len(preview_files)
             THEN <<PreviewSeparator(cfg)>> ELSE <<>>)

RECURSIVE PreviewFiles(_, _, _, _)
\* The loop over preview_files, from position i on.
PreviewFiles(cfg, fs, preview_files, i) ==
    IF i > Len(preview_files) THEN <<>>
    ELSE PreviewFile(cfg, fs, preview_files, i)
             \o PreviewFiles(cfg, fs, preview_files, i + 1)

\* The list `lines` at the return of generate_preview (lines 300-349); None
\* when the list of files is empty and the fixed message is returned.
PreviewLines(cfg, fs, max_lines) ==
    LET preview_files == SubSeq(fs, 1, IF Len(fs) < 3 THEN Len(fs) ELSE 3)
        lines == PreviewToc(cfg, fs)
                     \o PreviewFiles(cfg, fs, preview_files, 1)
                     \o (IF Len(fs) > Len(preview_files)
                         THEN <<OneLine("more files")>> ELSE <<>>)
    IN  IF Len(lines) > max_lines
        THEN SubSeq(lines, 1, max_lines)
                 \o <<OneLine(""), OneLine("... (preview truncated) ...")>>
        ELSE lines

RECURSIVE Flatten(_)
\* '\n'.join(lines), as the lines of the text returned.
Flatten(lines) ==
    IF lines = <<>> THEN <<>> ELSE Head(lines) \o Flatten(Tail(lines))

\* generate_preview(files, max_lines) under configuration cfg.
GeneratePreview(cfg, fs, max_lines) ==
    IF fs = <<>> THEN [lines |-> <<OneLine("No files to preview.")>>,
                       text |-> <<"No files to preview.">>,
                       processed |-> {}]
    ELSE LET lines == PreviewLines(cfg, fs, max_lines)
         IN  [lines |-> lines, text |-> Flatten(lines),
              processed |-> 1..(IF Len(fs) < 3 THEN Len(fs) ELSE 3)]

\* A file given to generate_preview: the number of pieces its processed
\* content splits into, and whether reading and processing it succeeds.
PreviewSources == [pieces : {2, 25}, ok : BOOLEAN]

\* A file past the third of the list: only its name is used.
ListedOnly == [pieces |-> 2, ok |-> TRUE]

\* The lists of files given to generate_preview.
PreviewLists ==
    {head \o [i \in 1..n |-> ListedOnly] :
        head \in SeqUpTo(PreviewSources, 3), n \in 0..(MaxPreviewFiles - 3)}
        \ {head \o [i \in 1..n |-> ListedOnly] :
              head \in SeqUpTo(PreviewSources, 2), n \in 1..(MaxPreviewFiles - 3)}

\* The options generate_preview and the header and separator it renders read.
PreviewConfigs ==
    [generate_toc : BOOLEAN, include_file_path : BOOLEAN,
     include_doc_index : BOOLEAN, separator_blank_lines : {0, 2}]

\* The values of max_lines: a small one and the default.
PreviewMaxLines == {5, 50}

\* A call generate_preview(files, max_lines); `flags` records _cancelled and
\* _paused of the engine at the moment of the call.
InitPreview ==
    /\ call \in [fn : {"generate_preview"}, config : PreviewConfigs,
                 files : PreviewLists, max_lines : PreviewMaxLines,
                 flags : [cancelled : BOOLEAN, paused : BOOLEAN]]
    /\ ret = NoCall
    /\ EngineAtRest(call.flags.cancelled, call.flags.paused)

\* generate_preview runs to its end: it assigns nothing of the engine and
\* opens no file for writing.
GeneratePreviewCall ==
    /\ call.fn = "generate_preview"
    /\ ret.fn = "none"
    /\ ret' = [fn |-> "generate_preview"]
                  @@ GeneratePreview(call.config, call.files, call.max_lines)
    /\ UNCHANGED <<call, engine>>

NextPreview == GeneratePreviewCall

SpecPreview == InitPreview /\ [][NextPreview]_vars

\* ------------------------------------------- several runs on one engine

\* The lists of files merged again and again: one file, or two.
RunFiles == {<<"a.md">>, <<"a.md", "b.md">>}

\* The first call of merge() on a newly constructed engine is about to run.
\* `call` counts the runs of the engine and records the flags that the run
\* about to start finds set.
InitRuns ==
    /\ files \in RunFiles
    /\ dry_run = FALSE
    /\ config = DefaultConfig
    /\ cancelled = FALSE
    /\ paused = FALSE
    /\ pc = "pending"
    /\ index = 0
    /\ processed_docs = <<>>
    /\ errors = <<>>
    /\ warnings = <<>>
    /\ bytes_processed = 0
    /\ progress = <<>>
    /\ attempts = <<>>
    /\ outputFile = Absent
    /\ backupFile = Absent
    /\ result = NoResult
    /\ cancelInRun = FALSE
    /\ cancelAtPause = 0
    /\ call = [fn |-> "merge", run |-> 1, left_cancelled |-> FALSE, left_paused |-> FALSE]
    /\ ret = NoCall

\* merge() has returned and the caller calls it again on the same engine with
\* the same arguments: the locals of the new call are fresh, the fields of the
\* engine and the files on disk are as the earlier run and the calls after it
\* left them.
MergeAgain ==
    /\ pc = "done"
    /\ call.fn = "merge"
    /\ call.run < MaxRuns
    /\ call' = [call EXCEPT !.run = @ + 1, !.left_cancelled = cancelled,
                            !.left_paused = paused]
    /\ pc' = "pending"
    /\ index' = 0
    /\ processed_docs' = <<>>
    /\ errors' = <<>>
    /\ warnings' = <<>>
    /\ bytes_processed' = 0
    /\ progress' = <<>>
    /\ attempts' = <<>>
    /\ result' = NoResult
    /\ cancelInRun' = FALSE
    /\ cancelAtPause' = 0
    /\ UNCHANGED <<files, dry_run, config, ret, cancelled, paused, outputFile, backupFile>>

NextRuns ==
    \/ Next
    \/ MergeAgain

SpecRuns == InitRuns /\ [][NextRuns]_vars

\* -------------------------------------------------------- process_document

RECURSIVE ReplaceCrLf(_)
\* content.replace('\r\n', '\n').
ReplaceCrLf(s) ==
    IF s = <<>> THEN <<>>
    ELSE IF Len(s) >= 2 /\ s[1] = "CR" /\ s[2] = "LF"
         THEN <<"LF">> \o ReplaceCrLf(SubSeq(s, 3, Len(s)))
         ELSE <<Head(s)>> \o ReplaceCrLf(Tail(s))

RECURSIVE ReplaceChar(_, _, _)
\* content.replace(old, new) for a single character old and a text new.
ReplaceChar(s, old, new) ==
    IF s = <<>> THEN <<>>
    ELSE (IF Head(s) = old THEN new ELSE <<Head(s)>>) \o ReplaceChar(Tail(s), old, new)

\* normalize_line_endings(content, style).
NormalizeLineEndings(content, style) ==
    LET lf == ReplaceChar(ReplaceCrLf(content), "CR", <<"LF">>)
    IN  IF style = "crlf" THEN ReplaceChar(lf, "LF", <<"CR", "LF">>) ELSE lf

\* processed_content of process_document(filepath, content, index, total_count)
\* under configuration cfg: steps 1 to 4, lines 67-83.
ProcessContent(cfg, content) ==
    LET step1 == IF cfg.strip_front_matter
                 THEN ExtractFrontMatter(content).remaining ELSE content
        step2 == IF cfg.adjust_header_level # 0
                 THEN AdjustHeaderLevels(step1, cfg.adjust_header_level) ELSE step1
        step3 == IF cfg.normalize_whitespace
                 THEN NormalizeWhitespace(step2, cfg.max_consecutive_blanks) ELSE step2
    IN  NormalizeLineEndings(step3, cfg.line_ending)

\* The options process_document reads for the processed content.
ProcessConfigs ==
    [strip_front_matter : BOOLEAN, adjust_header_level : {0, 1},
     normalize_whitespace : BOOLEAN, max_consecutive_blanks : {1, 2},
     line_ending : {"lf", "crlf"}]

\* The lines a document is written with.
DocumentLines == {<<>>, <<"a">>, <<"#", " ", "a">>, Dashes}

\* The line endings a document is written with.
LineEndings == [lf |-> <<"LF">>, crlf |-> <<"CR", "LF">>, cr |-> <<"CR">>]

RECURSIVE WriteLines(_, _)
\* The text of the lines, each followed by the line ending.
WriteLines(lines, ending) ==
    IF lines = <<>> THEN <<>>
    ELSE Head(lines) \o ending \o WriteLines(Tail(lines), ending)

\* A call process_document(filepath, content, 1, 1) on a document written with
\* one of the line endings.
InitProcess ==
    /\ call \in [fn : {"process_document"}, config : ProcessConfigs,
                 lines : SeqUpTo(DocumentLines, MaxDocLines),
                 ending : DOMAIN LineEndings]
    /\ ret = NoCall
    /\ EngineIdle

\* process_document runs to its end; `with_lf` is what it gives for the same
\* lines written with line feeds.
ProcessDocumentCall ==
    /\ call.fn = "process_document"
    /\ ret.fn = "none"
    /\ ret' = [fn |-> "process_document",
               processed_content |->
                   ProcessContent(call.config, WriteLines(call.lines, LineEndings[call.ending])),
               with_lf |->
                   ProcessContent(call.config, WriteLines(call.lines, LineEndings.lf))]
    /\ UNCHANGED <<call, engine>>

NextProcess == ProcessDocumentCall

SpecProcess == InitProcess /\ [][NextProcess]_vars

\* ------------------------------------------------------ shapes of a result

\* merge() has returned the result built at lines 159-167.
ResultCancelled == pc = "done" /\ result.errors = <<Msg("Merge cancelled by user", "")>>

\* merge() has returned the result built at lines 208-216.
ResultWriteFailed == pc = "done" /\ result.errors = <<Msg("Merge failed", "")>>

\* merge() has returned the result built at lines 197-205.
ResultCompleted == pc = "done" /\ ~ResultCancelled /\ ~ResultWriteFailed

\* The output file is as it was before the run: nothing opened or wrote it.
OutputUntouched == outputFile \in {Absent, OldOutput}

\* The run is inside the pause loop with the pause flag set.
Suspended == pc \in {"pause_test", "pause_sleep"} /\ paused

\* The number of entries of sequence s that satisfy Test.
Count(s, Test(_)) == Len(SelectSeq(s, Test))

IsOk(a) == a.ok
IsFailed(a) == ~a.ok

\* ------------------------------------------------------------------ claims

\* C1: if cancel() is called at any point while merge() is executing on a list
\* of at least one file (after the flags are cleared, before merge() returns),
\* merge() returns success = false and output_path = None, and the output file
\* is not written.
C1_CancelDuringRunCancels ==
    (pc = "done" /\ cancelInRun /\ Len(files) >= 1) =>
        /\ result.success = FALSE
        /\ result.output_path = "None"
        /\ OutputUntouched

\* C2: if cancel() is called while the run is suspended in the pause loop, the
\* file at which it was suspended is neither read nor processed, no further
\* progress snapshot is emitted and no output is written.
C2_CancelWhileSuspendedConsumesNothing ==
    cancelAtPause # 0 =>
        /\ Len(attempts) < cancelAtPause
        /\ Len(progress) < cancelAtPause
        /\ Len(processed_docs) < cancelAtPause
        /\ OutputUntouched

\* C3: while the run is suspended with the pause flag set and no cancel() has
\* arrived, no step reads a file, emits a snapshot or appends a document; the
\* files read are at every moment the first index - 1 files of the list, in list
\* order, each once, and a run that reaches the write phase has read the whole
\* list, however pause() and resume() were interleaved.
C3_PauseSuspendsResumeContinues ==
    /\ [][(Suspended /\ ~cancelled /\ paused' /\ ~cancelled') =>
            /\ attempts' = attempts
            /\ progress' = progress
            /\ processed_docs' = processed_docs
            /\ index' = index
            /\ Suspended']_vars
    /\ [](index >= 1 =>
            /\ Len(attempts) = index - 1
            /\ \A i \in 1..Len(attempts) : attempts[i].file = files[i]
            /\ Len(progress) \in {index - 1, index}
            /\ \A i \in 1..Len(progress) : progress[i].current_index = i)
    /\ [](pc \in {"write", "return"} => Len(attempts) = Len(files))

\* C3 witness: the run was suspended in the pause loop before its second file,
\* resume() has been called, and the first file has been read exactly once.
C3_Witness ==
    /\ pc = "pause_sleep" /\ ~paused /\ ~cancelled
    /\ index = 2 /\ Len(attempts) = 1 /\ Len(files) = 2

\* C4: in a run that is not cancelled and whose write phase does not fail, every
\* file is attempted, each processing failure is exactly one entry of the error
\* list (in order), the failed documents are absent from the output,
\* files_merged + len(errors) = len(files), and success holds iff the error list
\* is empty.
C4_FailureDoesNotStopRun ==
    ResultCompleted =>
        LET failed == SelectSeq(attempts, IsFailed) IN
        /\ Len(attempts) = Len(files)
        /\ result.errors = [k \in 1..Len(failed) |-> Msg("Error processing", failed[k].file)]
        /\ result.files_merged + Len(result.errors) = Len(files)
        /\ result.success = (result.errors = <<>>)
        /\ ~dry_run =>
             \A i \in 1..Len(attempts) :
                ~attempts[i].ok =>
                    \A t \in 1..Len(outputFile.content) : outputFile.content[t].index # i

\* C4 witness: a completed run over two files whose first file failed and whose
\* second file was processed and written.
C4_Witness ==
    /\ ResultCompleted /\ ~dry_run /\ Len(files) = 2
    /\ ~attempts[1].ok /\ attempts[2].ok
    /\ result.files_merged = 1

\* C5: in every result other than the write-failure result, completed or
\* cancelled, files_merged is the number of documents successfully processed.
C5_FilesMergedCountsProcessed ==
    (pc = "done" /\ ~ResultWriteFailed) => result.files_merged = Count(attempts, IsOk)

\* C6: when the write phase fails, merge() returns (nothing propagates) a result
\* with success = false, output_path = None, files_merged = 0 and exactly one
\* error, whatever was processed and whatever errors were recorded before.
C6_WriteFailureResult ==
    [][(pc = "except" /\ pc' # pc) =>
            /\ pc' = "done"
            /\ result'.success = FALSE
            /\ result'.output_path = "None"
            /\ result'.files_merged = 0
            /\ Len(result'.errors) = 1]_vars

\* C6 witness: the write phase failed after one document was processed and one
\* per-file error was recorded, and merge() has returned.
C6_Witness ==
    /\ ResultWriteFailed
    /\ Len(processed_docs) = 1 /\ Len(errors) = 1

IsContent(t) == t.kind = "content"

\* The documents of the written output, in output order.
OutputDocs == SelectSeq(outputFile.content, IsContent)

\* C7: the index values of the documents written to the output, in output
\* order, are exactly 1, 2, ..., N, also when some input files failed.
C7_OutputIndicesDense ==
    (ResultCompleted /\ ~dry_run) =>
        \A k \in 1..Len(OutputDocs) : OutputDocs[k].index = k

\* C8: the documents of the written output are the successfully processed files,
\* one document each, in the order of the list passed to merge().
C8_OutputOrderMatchesList ==
    (ResultCompleted /\ ~dry_run) =>
        LET ok == SelectSeq(attempts, IsOk) IN
        /\ Len(OutputDocs) = Len(ok)
        /\ \A k \in 1..Len(OutputDocs) :
            /\ OutputDocs[k].source = ok[k].file
            /\ OutputDocs[k].index \in 1..Len(files)
            /\ files[OutputDocs[k].index] = OutputDocs[k].source
        /\ \A j, k \in 1..Len(OutputDocs) :
            j < k => OutputDocs[j].index < OutputDocs[k].index

\* C8 witness: two different files were processed and written.
C8_Witness ==
    /\ ResultCompleted /\ ~dry_run
    /\ files = <<"b.md", "a.md">>
    /\ Len(OutputDocs) = 2

\* C9: with dry_run set no step creates, truncates or modifies the output file
\* or creates a backup, and the result has output_path = None, with success and
\* files_merged as in a normal run.
C9_DryRunWritesNothing ==
    /\ [][dry_run => (outputFile' = outputFile /\ backupFile' = backupFile)]_vars
    /\ []((pc = "done" /\ dry_run) =>
            /\ result.output_path = "None"
            /\ ~ResultWriteFailed
            /\ ResultCancelled => ~result.success
            /\ ResultCompleted =>
                /\ result.success = (Count(attempts, IsFailed) = 0)
                /\ result.files_merged = Count(attempts, IsOk))

\* C9 witness: a dry run with backups configured over an existing output file
\* has completed with two files merged.
C9_Witness ==
    /\ pc = "done" /\ dry_run /\ config.create_backup
    /\ outputFile = OldOutput /\ backupFile = Absent
    /\ result.success /\ result.files_merged = 2

\* The fragments of one document, in the order of the output format.
Layout == <<"meta", "start", "chunk", "header", "blank", "content", "end">>

\* Whether configuration cfg enables a fragment.
Enabled(cfg, kind) ==
    CASE kind = "meta" -> cfg.add_metadata
      [] kind \in {"start", "end"} -> cfg.add_semantic_markers
      [] kind = "chunk" -> cfg.add_chunk_hints
      [] OTHER -> TRUE

IsDocumentPart(t) ==
    t.kind \notin {"toc_title", "toc_entry", "toc_header", "toc_rule", "toc_gap"}
IsSep(t) == t.kind = "sep"
IsMeta(t) == t.kind = "meta"
IsStart(t) == t.kind = "start"
IsMarker(t) == t.kind \in {"start", "end"}

\* _write_output has returned.
Written == ret.fn = "_write_output"

\* C10: the written output holds, for each document in order, the enabled ones
\* of metadata, start marker, chunk hint, then header, blank line, content, then
\* the end marker if enabled; one separator between each two consecutive
\* documents and none after the last; with metadata and markers enabled, N
\* metadata annotations and N start markers, each followed by one end marker
\* before the next start marker.
C10_OutputLayout ==
    Written =>
        LET cfg == call.config
            docs == call.documents
            N == Len(docs)
            F == SelectSeq(Layout, LAMBDA k : Enabled(cfg, k))
            L == Len(F)
            B == SelectSeq(ret.output, IsDocumentPart)
            M == SelectSeq(B, IsMarker)
        IN  /\ Len(B) = N * L + (IF N = 0 THEN 0 ELSE N - 1)
            /\ \A k \in 1..N : \A j \in 1..L :
                 B[(k - 1) * (L + 1) + j] = Tok(F[j], docs[k].index, docs[k].source_path)
            /\ \A k \in 1..(N - 1) : IsSep(B[k * (L + 1)])
            /\ Count(B, IsSep) = (IF N = 0 THEN 0 ELSE N - 1)
            /\ (cfg.add_metadata /\ cfg.add_semantic_markers) =>
                 /\ Count(B, IsMeta) = N
                 /\ Count(B, IsStart) = N
                 /\ Len(M) = 2 * N
                 /\ \A i \in 1..Len(M) :
                      M[i].kind = (IF i % 2 = 1 THEN "start" ELSE "end")

\* C10 witness: two documents were written with metadata, markers and chunk
\* hints enabled.
C10_Witness ==
    /\ Written
    /\ Len(call.documents) = 2
    /\ call.config.add_metadata /\ call.config.add_semantic_markers
    /\ call.config.add_chunk_hints
    /\ Count(ret.output, IsSep) = 1

IsTocTitle(t) == t.kind = "toc_title"
IsTocLine(t) == t.kind \in {"toc_entry", "toc_header"}
IsTocHeader(t) == t.kind = "toc_header"
IsTopLevel(t) == IsTocLine(t) /\ t.indent = 0

\* C11: generate returns the empty text when the TOC is disabled and then no TOC
\* heading is written; when enabled, the top-level entries of the TOC are one per
\* document, in document order, header entries appear only if toc_depth > 1 and
\* only for headers of level at most toc_depth, and the TOC is written exactly
\* once: before the first document for position top, after the last for bottom.
C11_TOCStructure ==
    Written =>
        LET cfg == call.config
            docs == call.documents
            toc == ret.toc
            out == ret.output
            top == SelectSeq(toc, IsTopLevel)
            nested == SelectSeq(toc, IsTocHeader)
        IN  /\ ~cfg.generate_toc => (toc = <<>> /\ Count(out, IsTocTitle) = 0)
            /\ cfg.generate_toc =>
                 /\ Len(top) = Len(docs)
                 /\ \A k \in 1..Len(top) :
                      /\ top[k].kind = "toc_entry"
                      /\ top[k].index = docs[k].index
                      /\ top[k].source = docs[k].source_path
                 /\ nested # <<>> => cfg.toc_depth > 1
                 /\ \A j \in 1..Len(nested) : nested[j].indent + 1 <= cfg.toc_depth
                 /\ Count(out, IsTocTitle) = 1
                 /\ cfg.toc_position = "top" => SubSeq(out, 1, Len(toc)) = toc
                 /\ cfg.toc_position = "bottom" =>
                      SubSeq(out, Len(out) - Len(toc) + 1, Len(out)) = toc

\* C12: merge() on an empty file list returns success = true, files_merged = 0
\* and an empty error list, emits no progress snapshot, and the output it writes
\* contains no table-of-contents heading.
C12_EmptyListMerge ==
    (pc = "done" /\ files = <<>> /\ ~ResultWriteFailed) =>
        /\ result.success
        /\ result.files_merged = 0
        /\ result.errors = <<>>
        /\ progress = <<>>
        /\ ~dry_run => Count(outputFile.content, IsTocTitle) = 0

RECURSIVE BytesOfOk(_, _)
\* The sum of the sizes of the files among the first n attempts that were
\* processed successfully.
BytesOfOk(as, n) ==
    IF n = 0 THEN 0
    ELSE BytesOfOk(as, n - 1) + (IF as[n].ok THEN FileSize(as[n].file) ELSE 0)

\* C13: merge() emits exactly one progress snapshot per file it attempts, before
\* that file is read; the current_index of the i-th snapshot is i, at most
\* total_files = len(files); its bytes_processed is the sum of the sizes of the
\* files successfully processed before it (non-decreasing, at most total_bytes);
\* its error and warning lists are those of the moment of emission, and no later
\* step changes an emitted snapshot.
C13_ProgressSnapshots ==
    /\ [](Len(progress) \in {Len(attempts), Len(attempts) + 1})
    /\ [](pc = "process" => Len(progress) = Len(attempts) + 1)
    /\ [](pc = "done" => Len(progress) = Len(attempts))
    /\ [](\A i \in 1..Len(progress) :
            /\ progress[i].current_index = i
            /\ progress[i].total_files = Len(files)
            /\ i <= progress[i].total_files
            /\ progress[i].current_file = files[i]
            /\ progress[i].bytes_processed = BytesOfOk(attempts, i - 1)
            /\ progress[i].bytes_processed <= progress[i].total_bytes
            /\ progress[i].total_bytes = TotalBytes(files)
            /\ i > 1 => progress[i - 1].bytes_processed <= progress[i].bytes_processed
            /\ Len(progress[i].errors) = Count(SubSeq(attempts, 1, i - 1), IsFailed)
            /\ progress[i].errors = SubSeq(errors, 1, Len(progress[i].errors))
            /\ progress[i].warnings = warnings)
    /\ [][\A i \in 1..Len(progress) :
            i <= Len(progress') /\ progress'[i] = progress[i]]_vars

\* C13 witness: both files of a run failed; the snapshot emitted before the
\* second file holds the one error recorded until then, the run's list holds two.
C13_Witness ==
    /\ pc = "done" /\ Len(progress) = 2
    /\ Len(progress[2].errors) = 1 /\ Len(errors) = 2

\* The state of the run in the terms of MergeStatus: suspended while it sleeps
\* in the pause loop, terminal once merge() has returned.
RunState ==
    CASE pc = "pending" -> "Pending"
      [] pc = "pause_sleep" -> "Paused"
      [] ResultCancelled -> "Cancelled"
      [] ResultWriteFailed -> "Error"
      [] pc = "done" -> "Completed"
      [] OTHER -> "Running"

Transitions ==
    {<<"Pending", "Running">>, <<"Running", "Paused">>, <<"Paused", "Running">>,
     <<"Running", "Completed">>, <<"Running", "Cancelled">>, <<"Running", "Error">>}

ReturnsOnce ==
    /\ [][result' # result => (pc # "done" /\ pc' = "done")]_vars
    /\ [][pc = "done" => pc' = "done"]_vars

C16_BackupInWritePhase ==
    backupFile.exists =>
        /\ ~dry_run
        /\ backupFile = OldOutput
        /\ pc \in {"write", "except", "return", "done"}
        /\ ~ResultCancelled

\* discover_files has returned a list.
Discovered == ret.fn = "discover_files" /\ ~ret.raised

\* The paths of a list of FileInfo.
PathsOf(fs) == {fs[i].path : i \in 1..Len(fs)}

\* C17: the list returned by discover_files contains no two records with the
\* same path, whatever the list of input paths.
C17_UniqueByPath ==
    Discovered =>
        \A i, j \in 1..Len(ret.files) : i # j => ret.files[i].path # ret.files[j].path

\* The name matches an include pattern and no exclude pattern, letter case
\* apart.
NameSelected(cfg, name) ==
    /\ \E k \in 1..Len(cfg.include_patterns) :
            Fnmatch(Lower(name), Lower(cfg.include_patterns[k]))
    /\ \A k \in 1..Len(cfg.exclude_patterns) :
            ~Fnmatch(Lower(name), Lower(cfg.exclude_patterns[k]))

\* The files that a scan of the directory root has to return: selected by name,
\* directly in the root or, when recursive, below it through directories that
\* are not hidden, at most max_depth levels down.
Expected(cfg, root) ==
    {f \in RegularFiles :
        /\ Len(f) > Len(root) /\ SubSeq(f, 1, Len(root)) = root
        /\ NameSelected(cfg, PathName(f))
        /\ \A j \in (Len(root) + 1)..(Len(f) - 1) : Head(f[j]) # "."
        /\ LET depth == Len(f) - Len(root) - 1
           IN  \/ depth = 0
               \/ cfg.recursive /\ (cfg.max_depth = -1 \/ depth <= cfg.max_depth)}

\* C18: when no listing fails, the files discover_files returns are, for every
\* directory among the given paths, exactly the files selected by name that lie
\* directly in it or, when recursive, at most max_depth levels below it through
\* directories that are not hidden (any depth for max_depth = -1), the depth
\* counted from that directory; for one directory each such file is returned
\* once.
C18_DirectoryFilter ==
    (Discovered /\ call.env.fail = NoFailure) =>
        LET cfg == call.config
            paths == call.paths
            dirs == {k \in 1..Len(paths) : IsDir(paths[k])}
            given == {paths[k] : k \in {n \in 1..Len(paths) :
                        IsFile(paths[n]) /\ NameSelected(cfg, PathName(paths[n]))}}
        IN  /\ PathsOf(ret.files) = UNION {Expected(cfg, paths[k]) : k \in dirs} \cup given
            /\ (Len(paths) = 1 /\ dirs = {1}) =>
                    Len(ret.files) = Cardinality(Expected(cfg, paths[1]))

\* C18 witness: a recursive scan of docs with max_depth 1, the default include
\* patterns and the exclude pattern DRAFT* has returned File1.MD, file2.md,
\* file10.md and sub/file3.md: not notes.txt, not draft.md, not the file two
\* levels down and not the file of the hidden directory.
C18_Witness ==
    /\ Discovered /\ call.paths = <<Docs>> /\ call.env.fail = NoFailure
    /\ call.config.recursive /\ call.config.max_depth = 1
    /\ call.config.include_patterns = <<PatternMd, PatternMarkdown>>
    /\ call.config.exclude_patterns = <<PatternDraft>>
    /\ PathsOf(ret.files) = {File1, File2, File10, File3}

\* C19: the list discover_files returns is a permutation of the files in their
\* order of discovery; for the orders alphabetical, natural, date and size no
\* entry has a key smaller (ascending) or larger (descending) than an entry
\* before it, the natural key placing file2 before file10 and the alphabetical
\* one file10 before file2; for the order custom the list is the discovery order.
C19_SortedResult ==
    Discovered =>
        LET cfg == call.config
            fs == ret.files
            Position(p) == CHOOSE i \in 1..Len(fs) : fs[i].path = p
        IN  /\ Len(fs) = Len(ret.discovered)
            /\ \A p \in RegularFiles :
                    Count(fs, LAMBDA f : f.path = p)
                        = Count(ret.discovered, LAMBDA f : f.path = p)
            /\ cfg.sort_order = "custom" => fs = ret.discovered
            /\ cfg.sort_order # "custom" =>
                    \A i, j \in 1..Len(fs) : i < j =>
                        IF cfg.sort_ascending THEN ~SortKeyLess(cfg, fs[j], fs[i])
                        ELSE ~SortKeyLess(cfg, fs[i], fs[j])
            /\ (cfg.sort_order \in {"natural", "alphabetical"}
                    /\ {File2, File10} \subseteq PathsOf(fs)) =>
                    (Position(File2) < Position(File10))
                        = (cfg.sort_ascending = (cfg.sort_order = "natural"))

\* C19 witness: docs scanned without recursion in natural ascending order: the
\* files found as file10.md, file2.md, File1.MD, draft.md are returned as
\* draft.md, File1.MD, file2.md, file10.md.
C19_Witness ==
    /\ Discovered /\ call.paths = <<Docs>>
    /\ call.config.sort_order = "natural" /\ call.config.sort_ascending
    /\ [i \in 1..Len(ret.discovered) |-> ret.discovered[i].path]
            = <<File10, File2, File1, Draft>>
    /\ [i \in 1..Len(ret.files) |-> ret.files[i].path] = <<Draft, File1, File2, File10>>

\* detect_duplicates has returned a report.
Detected == ret.fn = "detect_duplicates" /\ ~ret.raised

\* C20: detect_duplicates returns an empty report when detection is disabled;
\* when enabled every group has at least 2 members, all members of a group
\* have the hash of the group, no file is in two groups, two entries with the
\* same content are in one group, and a list of distinct files of which exactly
\* two have the same content gives exactly one group, of size 2.
C20_DuplicateGroups ==
    Detected =>
        LET cfg == call.config
            fs == call.files
            groups == ret.groups
            same == {p \in (1..Len(fs)) \X (1..Len(fs)) :
                        p[1] < p[2] /\ FileContent(fs[p[1]].path) = FileContent(fs[p[2]].path)}
        IN  /\ ~cfg.detect_duplicates => DOMAIN groups = {}
            /\ cfg.detect_duplicates =>
                /\ \A h \in DOMAIN groups :
                        /\ Len(groups[h]) >= 2
                        /\ \A i \in 1..Len(groups[h]) :
                                /\ groups[h][i].hash = h
                                /\ CalculateFileHash(groups[h][i].path) = h
                /\ \A g, h \in DOMAIN groups :
                        g # h => PathsOf(groups[g]) \cap PathsOf(groups[h]) = {}
                /\ \A p \in same :
                        \E h \in DOMAIN groups :
                            {fs[p[1]].path, fs[p[2]].path} \subseteq PathsOf(groups[h])
                /\ (Cardinality(PathsOf(fs)) = Len(fs) /\ Cardinality(same) = 1) =>
                        /\ Cardinality(DOMAIN groups) = 1
                        /\ \A h \in DOMAIN groups : Len(groups[h]) = 2

\* C20 witness: of file10.md, file2.md and sub/file3.md the first and the last
\* have the same content; the report is the one group of these two.
C20_Witness ==
    /\ Detected /\ call.config.detect_duplicates
    /\ [i \in 1..Len(call.files) |-> call.files[i].path] = <<File10, File2, File3>>
    /\ DOMAIN ret.groups = {"d1"}
    /\ PathsOf(ret.groups["d1"]) = {File10, File3}
    /\ Len(ret.groups["d1"]) = 2

\* The files that discover_files has to return when the listing of the
\* directory env.fail.dir fails: those expected from the given paths that do not
\* lie in that directory.
ExpectedDespite(cfg, env, paths) ==
    LET dirs == {k \in 1..Len(paths) : IsDir(paths[k])}
        given == {paths[k] : k \in {n \in 1..Len(paths) :
                    IsFile(paths[n]) /\ NameSelected(cfg, PathName(paths[n]))}}
        lost == {f \in RegularFiles :
                    /\ env.fail # NoFailure
                    /\ Len(f) > Len(env.fail.dir)
                    /\ SubSeq(f, 1, Len(env.fail.dir)) = env.fail.dir}
    IN  (UNION {Expected(cfg, paths[k]) \ lost : k \in dirs}) \cup given

\* C21: a permission or I/O error raised while a directory is listed does not
\* abort discover_files: it returns, with every matching file of the other
\* directories and paths.
C21_ListingErrorsAreNotFatal ==
    (ret.fn = "discover_files" /\ call.env.fail # NoFailure) =>
        /\ ~ret.raised
        /\ PathsOf(ret.files) = ExpectedDespite(call.config, call.env, call.paths)

\* C22: a file that cannot be read does not abort discover_files or
\* detect_duplicates: discover_files returns every expected file, the unreadable
\* one with the sentinel as its preview, and detect_duplicates returns a report.
C22_UnreadableFilesAreNotFatal ==
    /\ (ret.fn = "discover_files" /\ call.env.unreadable # {}) =>
            /\ ~ret.raised
            /\ PathsOf(ret.files) = ExpectedDespite(call.config, call.env, call.paths)
            /\ \A i \in 1..Len(ret.files) :
                    (ret.files[i].preview = "[Could not read file]")
                        = (ret.files[i].path \in call.env.unreadable)
    /\ (ret.fn = "detect_duplicates" /\ call.env.unreadable # {}) => ~ret.raised

\* The value of the built-in preset as config.py defines it.
PresetValue(name) == ConfigValue(ImportedHeap, PresetRef(name))

\* C23: get_preset raises for every name that is no built-in preset; for a
\* built-in name the configuration it returns equals the preset, and whatever
\* the caller then does to the configurations it was given, every preset of the
\* table keeps its value (so later calls return it again).
C23_GetPresetFreshCopy ==
    ret.fn = "get_preset" =>
        /\ \A k \in 1..Len(ret.results) :
             /\ ret.results[k].raised = ~IsPresetName(ret.results[k].name)
             /\ ~ret.results[k].raised =>
                    ret.results[k].value = PresetValue(ret.results[k].name)
        /\ \A i \in 1..Len(PresetNames) :
             ConfigValue(ret.heap, i) = PresetValue(PresetNames[i])

\* C23 witness: get_preset("basic") was called twice; the first configuration
\* returned has since got another option value and a longer include list, and
\* the second call returned it unaffected.
C23_Witness ==
    /\ ret.fn = "get_preset" /\ Len(ret.results) = 2
    /\ ret.results[1].name = "basic" /\ ret.results[2].name = "basic"
    /\ ConfigValue(ret.heap, ret.results[1].ref).options.generate_toc
    /\ Len(ConfigValue(ret.heap, ret.results[1].ref).include_patterns) = 3
    /\ ConfigValue(ret.heap, ret.results[2].ref) = PresetValue("basic")

\* The level of a header line: the number of its leading hash signs when these
\* are 1 to 6 and a space and text follow; 0 for any other line.
HeaderLevel(line) ==
    LET hashes == RunOf(line, 1, {"#"})
    IN  IF /\ hashes \in 1..6
           /\ Len(line) > hashes + 1
           /\ line[hashes + 1] = " "
           /\ Strip(SubSeq(line, hashes + 1, Len(line))) # <<>>
        THEN hashes ELSE 0

\* A line of nothing but 1 to 6 hash signs and white space.
IsBareMarker(line) ==
    /\ RunOf(line, 1, {"#"}) \in 1..6
    /\ Strip(SubSeq(line, RunOf(line, 1, {"#"}) + 1, Len(line))) = <<>>

Clamp(level) == IF level < 1 THEN 1 ELSE IF level > 6 THEN 6 ELSE level

\* C24: for every header line of level L in 1..6 and every offset in -5..5 the
\* line adjust_header_levels yields in its place is the header of level
\* max(1, min(6, L + offset)) with the same text; every line that is not a
\* header line (nor a bare run of hash signs) is left unchanged, and offset 0
\* leaves the whole content unchanged.
C24_HeaderLevelsClamped ==
    ret.fn = "adjust_header_levels" =>
        LET before == SplitLines(call.content)
            after == SplitLines(ret.content)
        IN  /\ Len(after) = Len(before)
            /\ call.offset = 0 => ret.content = call.content
            /\ \A k \in 1..Len(before) :
                 LET level == HeaderLevel(before[k])
                 IN  /\ level > 0 =>
                        after[k] = Repeat("#", Clamp(level + call.offset))
                                   \o SubSeq(before[k], level + 1, Len(before[k]))
                     /\ (level = 0 /\ ~IsBareMarker(before[k])) => after[k] = before[k]

\* A delimiter line: three dashes, white space around them apart.
IsDelimiterLine(line) == Strip(line) = Dashes

\* C25: extract_front_matter returns front matter only when the first line of
\* the content is a delimiter line and a later line is one; the matter is then
\* the text between the first line and the first later delimiter line, the
\* remainder the text after that line (its leading line feeds dropped); in
\* every other case it returns (None, content).
C25_FrontMatterDelimiters ==
    ret.fn = "extract_front_matter" =>
        LET lines == SplitLines(call.content)
            closing == {k \in 2..Len(lines) : IsDelimiterLine(lines[k])}
            delimited == IsDelimiterLine(lines[1]) /\ closing # {}
        IN  /\ ret.matter.some => delimited
            /\ ~ret.matter.some => ret.remaining = call.content
            /\ (ret.matter.some /\ closing # {}) =>
                 LET c == CHOOSE k \in closing : \A j \in closing : k <= j
                 IN  /\ ret.matter.text = JoinLines(SubSeq(lines, 2, c - 1))
                     /\ ret.remaining
                          = LStrip(JoinLines(SubSeq(lines, c + 1, Len(lines))), {"LF"})

\* ------------------------------------------------------------------- C26

\* The longest run of line feeds in s.
LongestLineFeedRun(s) ==
    IF s = <<>> THEN 0
    ELSE LET runs == {RunOf(s, i, {"LF"}) : i \in 1..Len(s)}
         IN  CHOOSE r \in runs : \A q \in runs : q <= r

\* C26: normalize_whitespace yields a normal form and is idempotent.  For
\* every content and every max_consecutive m >= 1 the result has no run of more
\* than m + 1 line feeds, ends with exactly one line feed, and the text before
\* that line feed neither begins nor ends with whitespace (so there is no
\* leading and no trailing blank line); normalizing the result again with the
\* same m gives the result back.
C26_NormalizeWhitespaceNormalForm ==
    ret.fn = "normalize_whitespace" =>
        LET m == call.max_consecutive
            out == ret.content
            body == SubSeq(out, 1, Len(out) - 1)
        IN  /\ m >= 1
            /\ LongestLineFeedRun(out) <= m + 1
            /\ out # <<>> /\ out[Len(out)] = "LF"
            /\ body # <<>> => (body[1] \notin Spaces /\ body[Len(body)] \notin Spaces)
            /\ NormalizeWhitespace(out, m) = out

\* A content with blank lines before and after its text and a run of blank
\* lines inside it longer than max_consecutive has been normalized.
C26_Witness ==
    /\ ret.fn = "normalize_whitespace"
    /\ call.content # <<>>
    /\ call.content[1] = "LF"
    /\ call.content[Len(call.content)] = "LF"
    /\ \E i \in 2..Len(call.content) :
          /\ call.content[i - 1] = "a"
          /\ RunOf(call.content, i, {"LF"}) >= call.max_consecutive + 2
          /\ i + RunOf(call.content, i, {"LF"}) <= Len(call.content)
          /\ call.content[i + RunOf(call.content, i, {"LF"})] = "a"
    /\ LongestLineFeedRun(ret.content) = call.max_consecutive + 1

\* ------------------------------------------------------------------- C27

\* C27: generate_preview never writes to disk and never changes the engine's
\* cancel or pause flags; it processes at most the first 3 files, lists at most
\* the first 10 files in the TOC preview, followed by an overflow note when
\* there are more, and the text it returns never has more rendered lines than
\* max_lines plus the two lines of the truncation notice.
C27_PreviewIsBounded ==
    ret.fn = "generate_preview" =>
        /\ outputFile = Absent /\ backupFile = Absent
        /\ cancelled = call.flags.cancelled /\ paused = call.flags.paused
        /\ ret.processed \subseteq 1..3
        /\ Count(ret.lines, LAMBDA l : l = OneLine("toc entry")) <= 10
        /\ (call.config.generate_toc /\ Len(call.files) > 10 /\ call.max_lines > 12)
               => ret.lines[13] = OneLine("and more")
        /\ Len(ret.text) <= call.max_lines + 2

\* ------------------------------------------------------------------- C28

\* C28: a cancel() or pause() issued after the worker of a run was started is
\* honoured by that run even when it arrives before merge() has begun to
\* execute: the request is not lost, so the flag it set is still set once
\* merge() has taken its first step.
C28_EarlyRequestsAreHonoured ==
    [][(pc = "pending" /\ pc' # "pending") =>
           /\ cancelled => cancelled'
           /\ paused => paused']_vars

\* ------------------------------------------------------------------- C29

\* C29: runs on the same engine do not interfere through the cancel and pause
\* flags.  Every call of merge() starts with both flags cleared, so a run
\* during which cancel() was not called never returns the cancelled result,
\* whatever flags an earlier run, or a call after it returned, left set.
C29_RunsDoNotInterfere ==
    /\ [][(pc = "pending" /\ pc' # "pending") => (~cancelled' /\ ~paused')]_vars
    /\ []((pc = "done" /\ ~cancelInRun) => ~ResultCancelled)

\* A second run found both flags set by the time it started, no cancel() came
\* while it executed, and it has merged every file.
C29_Witness ==
    /\ call.fn = "merge"
    /\ call.run = 2
    /\ call.left_cancelled /\ call.left_paused
    /\ pc = "done"
    /\ ~cancelInRun
    /\ files # <<>>
    /\ result.success
    /\ result.files_merged = Len(files)

\* ------------------------------------------------------------------- C30

\* C30: the processed content that process_document produces does not depend
\* on the line-ending style of its input.  For every document and every
\* configuration, the document written with CRLF or CR line endings is
\* processed to the same content as the document written with LF line endings.
C30_LineEndingIndependent ==
    ret.fn = "process_document" => ret.processed_content = ret.with_lf

====
